---- MODULE Spec2Model ----
(***************************************************************************)
(* Verification model of qdlutils' synchronous NI-DAQ sequencing core:     *)
(*   - SequenceControllerBase (busy/stop guard, run_n_sequences generator, *)
(*     set_output)      experiments/controllers/sequencecontrollerbase.py  *)
(*   - NidaqSequencer (run_sequence, _parse_sequence_params, get_data)     *)
(*                      hardware/nidaq/synchronous/nidaqsequencer.py       *)
(*   - the input/output channel groups the sequencer drives                *)
(*                      hardware/nidaq/synchronous/nidaqsequencer*group.py *)
(***************************************************************************)
EXTENDS Integers, Sequences, FiniteSets, TLC

(***************************************************************************)
(* Bounds of the model                                                     *)
(***************************************************************************)
\* largest n passed to run_n_sequences
MaxN == 3
\* number of protected operations a thread issues in one behaviour
MaxOps == 2
\* largest n passed to run_n_sequences when two threads share the controller
MaxNDuo == 1

\* longest output data vector of a sequence request
MaxLen == 2
\* largest input_samples entry of a sequence request
MaxSamples == 2
\* largest readout_delays entry of a sequence request
MaxDelay == 1
\* readings the wavemeter thread records in one scan
MaxReads == 3
\* largest max_attempts passed to stabilize
MaxAttempts == 4

(***************************************************************************)
(* Configuration: the groups handed to the sequencer's constructor         *)
(***************************************************************************)
\* self.inputs / self.outputs, in dictionary order
InputGroupNames == <<"gi1", "gi2">>
OutputGroupNames == <<"go1">>
Groups == {"gi1", "gi2", "go1"}

\* group.source_names of every group (input_source_names, output_source_names)
SourceNames == [gi1 |-> <<"a">>, gi2 |-> <<"c">>, go1 |-> <<"x", "y">>]

\* the class of every group
GroupKind == [gi1 |-> "AIVoltage", gi2 |-> "CIEdge", go1 |-> "AOVoltage"]

\* input_source_group / output_source_group: the keys are the source names
InputSources == <<"a", "c">>
OutputSources == <<"x", "y">>
InputNames == {"a", "c"}
OutputNames == {"x", "y"}

\* channels_config[name]['min'] / ['max'] of the analog output channels
AoMin == -5
AoMax == 5

\* sample values of a request: 0 lies inside [AoMin, AoMax], 6 above AoMax
DataValues == {0, 6}

(***************************************************************************)
(* Controller: threads that call the protected operations                  *)
(***************************************************************************)
Threads == {"t1", "t2"}

\* output names passed to set_output: one registered, one unknown
SetNames == {"x", "nosuch"}
\* setpoints passed to set_output
SetValues == DataValues

VARIABLES
    busy,       \* SequenceControllerBase.busy
    stop,       \* SequenceControllerBase.stop
    pc,         \* pc[t]: position of thread t inside run_n_sequences / set_output
    n,          \* n[t]: argument n of the batch thread t runs
    i,          \* i[t]: loop variable of `for i in range(n)`
    runs,       \* runs[t]: calls of _run_sequence made by the current batch
    yielded,    \* yielded[t]: run numbers of the results the batch has yielded
    res,        \* res[t]: how the last operation of t ended
    ops,        \* ops[t]: operations t has started
    stopAt,     \* stopAt[t]: number of yields when the consumer set stop, -1 if it never did
    stopAtStart,\* stopAtStart[t]: value of stop when the batch passed the busy check
    op,         \* op[t]: the operation t runs: "none", "run_n_sequences", "set_output"
    soArg,      \* soArg[t]: arguments (output_id, setpoint) of t's set_output call
    gui         \* position of the GUI thread inside ScanApplication.stop_scan

ctlVars == <<busy, stop, pc, n, i, runs, yielded, res, ops, stopAt, stopAtStart,
             op, soArg, gui>>

VARIABLES
    origin,         \* who constructed the sequencer: "none", "base", "direct"
    sq_pc,          \* position inside NidaqSequencer.run_sequence
    idx,            \* index of the loop run_sequence is in
    err,            \* the exception that ended the constructor or run_sequence
    errAt,          \* the position at which it was raised
    output_data,    \* request: source name -> data vector
    input_samples,  \* request: source name -> sample count
    readout_delays, \* request: source name -> delay; the caller's dictionary object
    soft_start,     \* request: source name -> bool
    rd_given,       \* readout_delays as the caller passed it
    clock,          \* clock task: "none", "committed", "started", "closed"
    task,           \* task[g]: the task group g refers to: "none", "created",
                    \* "committed", "started", "closed"
    nsit,           \* nsit[g]: group.n_samples_in_task (inputs), group.n_samples (outputs)
    hasData,        \* hasData[g]: group.data is not None
    gdata,          \* gdata[g]: group.data, source name -> array
    log,            \* the driver calls of this run_sequence, in order
    got             \* the last get_data(names=...) call: its argument, result, error

seqVars == <<origin, sq_pc, idx, err, errAt, output_data, input_samples, readout_delays,
             soft_start, rd_given, clock, task, nsit, hasData, gdata, log, got>>

VARIABLES
    cg,             \* an input group on its own: parameters, buffer read, data
    dg,             \* a digital output group on its own: configuration, data, port data
    pr              \* a request of arrays of any shape and what validation made of it

VARIABLES
    cf,             \* a PLE controller being configured: its attributes, the last call
    pd,             \* a process_data call: the controller, the instructions, the outcome
    wm,             \* the segmented controller with wavemeter: main and sampling thread
    sg,             \* the segmented controller running its three segments
    ct              \* a NidaqSequencer under construction: the groups, the outcome

VARIABLES
    ss,             \* a set_output call on the segmented PLE controller
    sb,             \* a stabilize call of the state monitoring experiment
    rs,             \* a sequencer that is run several times and then asked for its data
    ga              \* the PLE application: launcher, scan windows and their threads

extVars == <<ss, sb, rs, ga>>

appVars == <<cf, pd, wm, sg, ct, extVars>>

grpVars == <<cg, dg, pr, appVars>>

vars == <<ctlVars, seqVars, grpVars>>

\* program positions at which a thread is inside a protected region
\* (past `if self.busy: raise`, before the operation's exit)
RnInside == {"rn_reserve", "rn_for", "rn_run", "rn_yield", "rn_stopchk",
             "rn_rel_busy", "rn_rel_stop"}
SoInside == {"so_reserve", "so_write", "so_release"}
PastCheck == RnInside \cup SoInside

CtlInit ==
    /\ busy = FALSE
    /\ stop = FALSE
    /\ pc = [t \in Threads |-> "idle"]
    /\ n = [t \in Threads |-> 0]
    /\ i = [t \in Threads |-> 0]
    /\ runs = [t \in Threads |-> 0]
    /\ yielded = [t \in Threads |-> <<>>]
    /\ res = [t \in Threads |-> "none"]
    /\ ops = [t \in Threads |-> 0]
    /\ stopAt = [t \in Threads |-> -1]
    /\ stopAtStart = [t \in Threads |-> FALSE]
    /\ op = [t \in Threads |-> "none"]
    /\ soArg = [t \in Threads |-> <<"x", 0>>]
    /\ gui = "idle"

(***************************************************************************)
(* run_n_sequences: a generator; its body runs from the first next()       *)
(***************************************************************************)
\* the consumer creates the generator and asks for its first value
RnCall(t, k) ==
    /\ pc[t] = "idle"
    /\ ops[t] < MaxOps
    /\ pc' = [pc EXCEPT ![t] = "rn_check"]
    /\ op' = [op EXCEPT ![t] = "run_n_sequences"]
    /\ n' = [n EXCEPT ![t] = k]
    /\ i' = [i EXCEPT ![t] = 0]
    /\ runs' = [runs EXCEPT ![t] = 0]
    /\ yielded' = [yielded EXCEPT ![t] = <<>>]
    /\ res' = [res EXCEPT ![t] = "none"]
    /\ ops' = [ops EXCEPT ![t] = @ + 1]
    /\ stopAt' = [stopAt EXCEPT ![t] = -1]
    /\ stopAtStart' = [stopAtStart EXCEPT ![t] = FALSE]
    /\ UNCHANGED <<busy, stop, soArg, gui, seqVars, grpVars>>

\* a guard that lets every call through
BusyGuardNever(b) == FALSE

\* `if self.busy: raise RuntimeError(...)`: TRUE when the call is rejected
BusyGuard(b) == b

RnCheck(t) ==
    /\ pc[t] = "rn_check"
    /\ IF BusyGuard(busy)
       THEN /\ pc' = [pc EXCEPT ![t] = "ended"]
            /\ res' = [res EXCEPT ![t] = "busy_error"]
            /\ UNCHANGED stopAtStart
       ELSE /\ pc' = [pc EXCEPT ![t] = "rn_reserve"]
            /\ stopAtStart' = [stopAtStart EXCEPT ![t] = stop]
            /\ UNCHANGED res
    /\ UNCHANGED <<busy, stop, n, i, runs, yielded, ops, stopAt, op, soArg, gui, seqVars, grpVars>>

\* `self.busy=True`
RnReserve(t) ==
    /\ pc[t] = "rn_reserve"
    /\ busy' = TRUE
    /\ pc' = [pc EXCEPT ![t] = "rn_for"]
    /\ UNCHANGED <<stop, n, i, runs, yielded, res, ops, stopAt, stopAtStart, op, soArg, gui, seqVars, grpVars>>

\* a loop that runs one repetition too many
ForTargetOneMore(done, total) == IF done <= total THEN "rn_run" ELSE "rn_rel_busy"

\* `for i in range(n):` -- the position the loop head continues at
ForTarget(done, total) == IF done < total THEN "rn_run" ELSE "rn_rel_busy"

RnFor(t) ==
    /\ pc[t] = "rn_for"
    /\ pc' = [pc EXCEPT ![t] = ForTarget(i[t], n[t])]
    /\ i' = [i EXCEPT ![t] = IF i[t] < n[t] THEN @ + 1 ELSE @]
    /\ UNCHANGED <<busy, stop, n, runs, yielded, res, ops, stopAt, stopAtStart, op, soArg, gui, seqVars, grpVars>>

\* `yield self._run_sequence(...)`: one sequence; it returns a result, which
\* is yielded, or raises (sequencer or process_method), which ends the generator;
\* no try/finally encloses the loop, so the exception skips lines 263-264
RnRun(t) ==
    /\ pc[t] = "rn_run"
    /\ runs' = [runs EXCEPT ![t] = @ + 1]
    /\ \E outcome \in {"ok", "raise"} :
         IF outcome = "ok"
         THEN /\ yielded' = [yielded EXCEPT ![t] = Append(@, runs[t] + 1)]
              /\ pc' = [pc EXCEPT ![t] = "rn_yield"]
              /\ UNCHANGED <<res, busy, stop>>
         ELSE /\ pc' = [pc EXCEPT ![t] = "ended"]
              /\ res' = [res EXCEPT ![t] = "raised"]
              /\ UNCHANGED <<yielded, busy, stop>>
    /\ UNCHANGED <<n, i, ops, stopAt, stopAtStart, op, soArg, gui, seqVars, grpVars>>

\* the consumer asks for the next value: the generator resumes after the yield
RnResume(t) ==
    /\ pc[t] = "rn_yield"
    /\ pc' = [pc EXCEPT ![t] = "rn_stopchk"]
    /\ UNCHANGED <<busy, stop, n, i, runs, yielded, res, ops, stopAt, stopAtStart, op, soArg, gui, seqVars, grpVars>>

\* a loop that never looks at the stop flag
StopTargetIgnored(s) == "rn_for"

\* `if self.stop: break`
StopTarget(s) == IF s THEN "rn_rel_busy" ELSE "rn_for"

RnStopChk(t) ==
    /\ pc[t] = "rn_stopchk"
    /\ pc' = [pc EXCEPT ![t] = StopTarget(stop)]
    /\ UNCHANGED <<busy, stop, n, i, runs, yielded, res, ops, stopAt, stopAtStart, op, soArg, gui, seqVars, grpVars>>

\* `self.busy=False`
RnRelBusy(t) ==
    /\ pc[t] = "rn_rel_busy"
    /\ busy' = FALSE
    /\ pc' = [pc EXCEPT ![t] = "rn_rel_stop"]
    /\ UNCHANGED <<stop, n, i, runs, yielded, res, ops, stopAt, stopAtStart, op, soArg, gui, seqVars, grpVars>>

\* `self.stop=False`, then the generator is exhausted
RnRelStop(t) ==
    /\ pc[t] = "rn_rel_stop"
    /\ stop' = FALSE
    /\ pc' = [pc EXCEPT ![t] = "ended"]
    /\ res' = [res EXCEPT ![t] = "done"]
    /\ UNCHANGED <<busy, n, i, runs, yielded, ops, stopAt, stopAtStart, op, soArg, gui, seqVars, grpVars>>

\* the caller takes the outcome of the operation and is free to start another
Return(t) ==
    /\ pc[t] = "ended"
    /\ pc' = [pc EXCEPT ![t] = "idle"]
    /\ op' = [op EXCEPT ![t] = "none"]
    /\ res' = [res EXCEPT ![t] = "none"]
    /\ n' = [n EXCEPT ![t] = 0]
    /\ i' = [i EXCEPT ![t] = 0]
    /\ runs' = [runs EXCEPT ![t] = 0]
    /\ yielded' = [yielded EXCEPT ![t] = <<>>]
    /\ stopAt' = [stopAt EXCEPT ![t] = -1]
    /\ stopAtStart' = [stopAtStart EXCEPT ![t] = FALSE]
    /\ soArg' = [soArg EXCEPT ![t] = <<"x", 0>>]
    /\ UNCHANGED <<busy, stop, ops, gui, seqVars, grpVars>>

(***************************************************************************)
(* set_output                                                              *)
(***************************************************************************)
\* NidaqSequencer.set_output -> group.set: the name is looked up in
\* output_source_group (KeyError), the setpoint is validated against the
\* channel's [min, max] (ValueError), then a throwaway task writes it (the
\* driver may fail)
SetOutcome(name, value, hw) ==
    IF name \notin OutputNames THEN "KeyError"
    ELSE IF value < AoMin \/ value > AoMax THEN "ValueError"
    ELSE IF hw = "fail" THEN "DaqError"
    ELSE "ok"

SoCall(t, name, value) ==
    /\ pc[t] = "idle"
    /\ ops[t] < MaxOps
    /\ pc' = [pc EXCEPT ![t] = "so_check"]
    /\ op' = [op EXCEPT ![t] = "set_output"]
    /\ soArg' = [soArg EXCEPT ![t] = <<name, value>>]
    /\ res' = [res EXCEPT ![t] = "none"]
    /\ ops' = [ops EXCEPT ![t] = @ + 1]
    /\ UNCHANGED <<busy, stop, n, i, runs, yielded, stopAt, stopAtStart, gui, seqVars, grpVars>>

\* `if self.busy: raise RuntimeError(...)`
SoCheck(t) ==
    /\ pc[t] = "so_check"
    /\ IF BusyGuard(busy)
       THEN /\ pc' = [pc EXCEPT ![t] = "ended"]
            /\ res' = [res EXCEPT ![t] = "busy_error"]
       ELSE /\ pc' = [pc EXCEPT ![t] = "so_reserve"]
            /\ UNCHANGED res
    /\ UNCHANGED <<busy, stop, n, i, runs, yielded, ops, stopAt, stopAtStart, op, soArg, gui, seqVars, grpVars>>

\* `self.busy=True`
SoReserve(t) ==
    /\ pc[t] = "so_reserve"
    /\ busy' = TRUE
    /\ pc' = [pc EXCEPT ![t] = "so_write"]
    /\ UNCHANGED <<stop, n, i, runs, yielded, res, ops, stopAt, stopAtStart, op, soArg, gui, seqVars, grpVars>>

\* try: self.sequencer.set_output(...)  except Exception as e: raise e
\* -- the handler re-raises, so line 287 is reached only after a good write
SoWrite(t) ==
    /\ pc[t] = "so_write"
    /\ \E hw \in {"ok", "fail"} :
         IF SetOutcome(soArg[t][1], soArg[t][2], hw) = "ok"
         THEN /\ pc' = [pc EXCEPT ![t] = "so_release"]
              /\ UNCHANGED res
         ELSE /\ pc' = [pc EXCEPT ![t] = "ended"]
              /\ res' = [res EXCEPT ![t] = "raised"]
    /\ UNCHANGED <<busy, stop, n, i, runs, yielded, ops, stopAt, stopAtStart, op, soArg, gui, seqVars, grpVars>>

\* `self.busy=False`
SoRelease(t) ==
    /\ pc[t] = "so_release"
    /\ busy' = FALSE
    /\ pc' = [pc EXCEPT ![t] = "ended"]
    /\ res' = [res EXCEPT ![t] = "done"]
    /\ UNCHANGED <<stop, n, i, runs, yielded, ops, stopAt, stopAtStart, op, soArg, gui, seqVars, grpVars>>

(***************************************************************************)
(* Stop requests                                                           *)
(***************************************************************************)
\* the consumer of the generator sets `controller.stop = True` between two
\* next() calls, i.e. while the generator is suspended at its yield
ConsumerStop(t) ==
    /\ pc[t] = "rn_yield"
    /\ ~stop
    /\ stop' = TRUE
    /\ stopAt' = [stopAt EXCEPT ![t] = Len(yielded[t])]
    /\ UNCHANGED <<busy, pc, n, i, runs, yielded, res, ops, stopAtStart, op, soArg, gui, seqVars, grpVars>>

\* `controller.stop = True` set from outside while no operation is running
IdleStop ==
    /\ \A t \in Threads : pc[t] = "idle"
    /\ ~stop
    /\ stop' = TRUE
    /\ UNCHANGED <<busy, pc, n, i, runs, yielded, res, ops, stopAt, stopAtStart, op, soArg, gui, seqVars, grpVars>>

\* ScanApplication.stop_scan, run by the GUI thread:
\*   if controller.stop is True: return
GuiCheckStop ==
    /\ gui = "idle"
    /\ gui' = IF stop THEN "idle" ELSE "chk_busy"
    /\ UNCHANGED <<busy, stop, pc, n, i, runs, yielded, res, ops, stopAt, stopAtStart, op, soArg, seqVars, grpVars>>

\*   if controller.busy: ... else: return
GuiCheckBusy ==
    /\ gui = "chk_busy"
    /\ gui' = IF busy THEN "set_stop" ELSE "idle"
    /\ UNCHANGED <<busy, stop, pc, n, i, runs, yielded, res, ops, stopAt, stopAtStart, op, soArg, seqVars, grpVars>>

\*   controller.stop = True
GuiSetStop ==
    /\ gui = "set_stop"
    /\ stop' = TRUE
    /\ gui' = "idle"
    /\ UNCHANGED <<busy, pc, n, i, runs, yielded, res, ops, stopAt, stopAtStart, op, soArg, seqVars, grpVars>>

(***************************************************************************)
(* Sequencer: state                                                        *)
(***************************************************************************)
Range(f) == {f[j] : j \in DOMAIN f}

\* dictionaries whose keys are some of `keys` and whose values lie in `vals`
Dicts(keys, vals) == UNION {[D -> vals] : D \in SUBSET keys}

\* data vectors of a request: up to MaxLen samples; an out-of-range sample,
\* if there is one, is the last
DataVectors ==
    {v \in UNION {[1..l -> DataValues] : l \in 0..MaxLen} :
        \A j \in 1..Len(v) : j < Len(v) => v[j] = 0}

\* the names soft_start may mention, in the order the dictionary lists them
SoftOrder == <<"x", "c">>

\* np.uint32 values are kept as two 16-bit halves <<high, low>>
Half == 2^16
U32(v) == <<(v \div Half) % Half, v % Half>>
Add32(a, b) ==
    LET lo == a[2] + b[2]
    IN  <<(a[1] + b[1] + (lo \div Half)) % Half, lo % Half>>
\* a subtraction that does not wrap below zero
SubFloor32(a, b) ==
    IF a[1] < b[1] \/ (a[1] = b[1] /\ a[2] < b[2]) THEN <<0, 0>>
    ELSE <<a[1] - b[1] - (IF a[2] < b[2] THEN 1 ELSE 0), (a[2] - b[2]) % Half>>
Sub32(a, b) ==
    LET lo == a[2] - b[2]
    IN  <<(a[1] - b[1] - (IF lo < 0 THEN 1 ELSE 0)) % Half, lo % Half>>

\* raw buffers the driver hands back for a task of len samples.  Analog
\* input: voltages.  Counter input: cumulative uint32 counts that grow by
\* one per sample from a base; the second base wraps inside the buffer
RawBases == {<<0, 0>>, <<Half - 1, Half - 2>>}
RawBuffers(kind, len) ==
    IF kind = "AIVoltage"
    THEN {[j \in 1..len |-> v] : v \in {0, 1}}
    ELSE {[j \in 1..len |-> Add32(b, U32(j))] : b \in RawBases}

Event(e, w, v) == [ev |-> e, who |-> w, val |-> v]

SeqInit ==
    /\ origin = "none"
    /\ sq_pc = "none"
    /\ idx = 0
    /\ err = "none"
    /\ errAt = "none"
    /\ output_data \in Dicts(OutputNames, DataVectors)
    /\ input_samples \in Dicts(InputNames, -1..MaxSamples)
    /\ readout_delays \in Dicts(InputNames, -1..MaxDelay)
    /\ soft_start \in Dicts(Range(SoftOrder), BOOLEAN)
    /\ rd_given = readout_delays
    /\ clock = "none"
    /\ task = [g \in Groups |-> "none"]
    /\ nsit = [g \in Groups |-> 0]
    /\ hasData = [g \in Groups |-> FALSE]
    /\ gdata = [g \in Groups |-> <<>>]
    /\ log = <<>>
    /\ got = <<>>

\* the sequencer as the controller specifications see it: not in use
SeqQuiet ==
    /\ origin = "none"
    /\ sq_pc = "none"
    /\ idx = 0
    /\ err = "none"
    /\ errAt = "none"
    /\ output_data = <<>>
    /\ input_samples = <<>>
    /\ readout_delays = <<>>
    /\ soft_start = <<>>
    /\ rd_given = <<>>
    /\ clock = "none"
    /\ task = [g \in Groups |-> "none"]
    /\ nsit = [g \in Groups |-> 0]
    /\ hasData = [g \in Groups |-> FALSE]
    /\ gdata = [g \in Groups |-> <<>>]
    /\ log = <<>>
    /\ got = <<>>

\* the stand-alone groups as the other specifications see them: not in use
ExtQuiet ==
    /\ ss = <<>>
    /\ sb = <<>>
    /\ rs = <<>>
    /\ ga = <<>>

AppQuiet ==
    /\ ExtQuiet
    /\ cf = <<>>
    /\ pd = <<>>
    /\ wm = <<>>
    /\ sg = <<>>
    /\ ct = <<>>

GrpQuiet ==
    /\ cg = <<>>
    /\ dg = <<>>
    /\ pr = <<>>
    /\ AppQuiet

(***************************************************************************)
(* Calls with keyword arguments                                            *)
(***************************************************************************)
\* a call binds when every parameter without a default is supplied and every
\* supplied keyword is a parameter; otherwise Python raises TypeError before
\* the body runs
Binds(params, required, supplied) ==
    /\ required \subseteq supplied
    /\ supplied \subseteq params

\* NidaqSequencer.__init__(inputs, outputs, clock_device, clock_channel, clock_terminal)
SequencerInitParams ==
    {"inputs", "outputs", "clock_device", "clock_channel", "clock_terminal"}

\* the keywords SequenceControllerBase.__init__ passes to NidaqSequencer(...)
ControllerInitSupplied == {"inputs", "outputs", "clock_device", "clock_channel"}

\* the keywords PLEControllerPulsedRepumpSegmented.__init__ passes
SegmentedInitSupplied ==
    {"inputs", "outputs", "clock_device", "clock_channel", "clock_terminal"}

\* build(...) of the input group classes, and what run_sequence passes
InputBuildParams ==
    {"n_samples", "clock_device", "clock_terminal", "sample_rate", "readout_delays"}
InputBuildSupplied == {"n_samples", "clock_device", "sample_rate", "readout_delays"}

\* build(...) of the output group classes, and what run_sequence passes
OutputBuildParams == {"data", "clock_device", "clock_terminal", "sample_rate"}
OutputBuildSupplied == {"data", "clock_device", "sample_rate"}

\* the parameters a group's build requires: those of the group classes of
\* nidaqsequencer*group.py, or -- for a subclass that implements build with
\* a default clock terminal -- only the ones run_sequence passes
BuildRequired(params, supplied) == {params, supplied}

(***************************************************************************)
(* _parse_sequence_params                                                  *)
(***************************************************************************)
\* NidaqSequencerAOVoltageGroup._validate_data
InRange(v) == \A j \in 1..Len(v) : ~(v[j] < AoMin) /\ ~(v[j] > AoMax)

\* the loop over the sources of one output group, from the j-th on
RECURSIVE CheckSources(_, _, _)
CheckSources(od, names, j) ==
    IF j > Len(names) THEN "none"
    ELSE IF names[j] \notin DOMAIN od THEN "ValueError"
    ELSE IF ~InRange(od[names[j]]) THEN "ValueError"
    ELSE CheckSources(od, names, j + 1)

\* `len(set(shapes)) > 1`
ShapesDiffer(od, names) ==
    Cardinality({Len(od[names[j]]) : j \in 1..Len(names)}) > 1

\* the loop over the output groups, from the gk-th on
RECURSIVE ParseOutputs(_, _)
ParseOutputs(od, gk) ==
    IF gk > Len(OutputGroupNames) THEN "none"
    ELSE LET names == SourceNames[OutputGroupNames[gk]]
             c == CheckSources(od, names, 1)
         IN  IF c /= "none" THEN c
             ELSE IF ShapesDiffer(od, names) THEN "ValueError"
             ELSE ParseOutputs(od, gk + 1)

\* a check that lets every sample count through
SamplesRejectedNever(k) == FALSE

\* `elif input_samples[src] < 0`
SamplesRejected(k) == k < 0

\* a check that lets every delay through
DelayRejectedNever(d) == FALSE

\* `elif readout_delays[src] < 0`
DelayRejected(d) == d < 0

\* the loop over the input sources, from the j-th on; rd is the dictionary
\* as the loop has left it so far
RECURSIVE ParseInputs(_, _, _)
ParseInputs(is, rd, j) ==
    IF j > Len(InputSources) THEN [err |-> "none", rd |-> rd]
    ELSE LET src == InputSources[j] IN
         IF src \notin DOMAIN is THEN [err |-> "ValueError", rd |-> rd]
         ELSE IF SamplesRejected(is[src]) THEN [err |-> "ValueError", rd |-> rd]
         ELSE IF src \notin DOMAIN rd THEN ParseInputs(is, rd @@ (src :> 0), j + 1)
         ELSE IF DelayRejected(rd[src]) THEN [err |-> "ValueError", rd |-> rd]
         ELSE ParseInputs(is, rd, j + 1)

ParseSequenceParams(od, is, rd) ==
    LET o == ParseOutputs(od, 1) IN
    IF o /= "none" THEN [err |-> o, rd |-> rd] ELSE ParseInputs(is, rd, 1)

(***************************************************************************)
(* Validation of output data of any shape                                  *)
(***************************************************************************)
\* a sequencer with two output groups
PrGroupNames == <<"go1", "go2">>
PrSourceNames == [go1 |-> <<"x", "y">>, go2 |-> <<"z">>]
PrOutputNames == UNION {Range(PrSourceNames[g]) : g \in Range(PrGroupNames)}

\* array shapes: 0-dimensional, vectors, matrices
PrShapes ==
    {<<>>} \cup {<<l>> : l \in 0..MaxLen} \cup {<<r, c>> : r \in 1..MaxLen, c \in 1..MaxLen}

\* number of samples of an array of the shape
PrSize(sh) == IF Len(sh) = 0 THEN 1 ELSE IF Len(sh) = 1 THEN sh[1] ELSE sh[1] * sh[2]

\* arrays: a shape and the samples in storage order; every sample is 0
\* except, possibly, the last
PrArrays ==
    UNION {{[shape |-> sh, flat |-> [j \in 1..PrSize(sh) |-> IF j = PrSize(sh) THEN last ELSE 0]] :
                last \in DataValues} : sh \in PrShapes}

\* `if len(shapes[0]) > 1`
PrNotOneDim(sh) == Len(sh) > 1

RECURSIVE PrCheckSources(_, _, _)
\* the loop over the sources of one output group, from the j-th on
PrCheckSources(od, names, j) ==
    IF j > Len(names) THEN "none"
    ELSE IF names[j] \notin DOMAIN od THEN "ValueError"
    ELSE IF ~InRange(od[names[j]].flat) THEN "ValueError"
    ELSE PrCheckSources(od, names, j + 1)

RECURSIVE PrParseOutputs(_, _)
\* the loop over the output groups, from the gk-th on: every source is
\* present and in range, the set of shapes has one element, shapes[0] has
\* at most one dimension
PrParseOutputs(od, gk) ==
    IF gk > Len(PrGroupNames) THEN "none"
    ELSE LET names == PrSourceNames[PrGroupNames[gk]]
             c == PrCheckSources(od, names, 1)
         IN  IF c /= "none" THEN c
             ELSE IF Cardinality({od[names[j]].shape : j \in 1..Len(names)}) > 1 THEN "ValueError"
             ELSE IF PrNotOneDim(od[names[1]].shape) THEN "ValueError"
             ELSE PrParseOutputs(od, gk + 1)

\* requests: output arrays of any shape, the input side complete and valid
ParseInit ==
    /\ CtlInit
    /\ SeqQuiet
    /\ AppQuiet
    /\ cg = <<>>
    /\ dg = <<>>
    /\ pr \in [pc : {"new"},
               output_data : Dicts(PrOutputNames, PrArrays),
               input_samples : {[s \in InputNames |-> 1]},
               readout_delays : {<<>>},
               err : {"none"}]

\* _parse_sequence_params on the request
PrValidate ==
    /\ pr.pc = "new"
    /\ LET o == PrParseOutputs(pr.output_data, 1)
           r == IF o /= "none" THEN [err |-> o, rd |-> pr.readout_delays]
                ELSE ParseInputs(pr.input_samples, pr.readout_delays, 1)
       IN  pr' = [pr EXCEPT !.pc = IF r.err = "none" THEN "accepted" ELSE "rejected",
                            !.err = r.err,
                            !.readout_delays = r.rd]
    /\ UNCHANGED <<ctlVars, seqVars, cg, dg, appVars>>

SpecParse == ParseInit /\ [][PrValidate]_vars

(***************************************************************************)
(* Channel groups: build and readout                                       *)
(***************************************************************************)
\* the smallest element instead
Min(S) == CHOOSE m \in S : \A e \in S : m <= e
\* np.max of a list
Max(S) == CHOOSE m \in S : \A e \in S : e <= m

\* a rate group that acquires no extra sample
SamplesInTaskNoExtra(kind, names, is, rd) ==
    Max({is[names[j]] + rd[names[j]] : j \in 1..Len(names)})

\* input groups: np.max([n_samples[name] + readout_delays[name] ...]), one
\* more for the rate group
SamplesInTask(kind, names, is, rd) ==
    Max({is[names[j]] + rd[names[j]] : j \in 1..Len(names)})
        + (IF kind = "CIEdgeRate" THEN 1 ELSE 0)

\* output groups: np.max([len(data[name]) ...])
SamplesToWrite(names, od) == Max({Len(od[names[j]]) : j \in 1..Len(names)})

\* numpy slice a[lo:hi] of a 1-D array, 0-based, clipped to the array
Slice(a, lo, hi) ==
    LET h == IF hi < Len(a) THEN hi ELSE Len(a)
    IN  IF lo >= h THEN <<>> ELSE [j \in 1..(h - lo) |-> a[lo + j]]

\* NidaqSequencerAIVoltageGroup.readout, one channel
AIReadout(raw, d, cnt) == Slice(raw, d, d + cnt)

\* NidaqSequencerCIEdgeGroup.readout, one channel: data_buffer[j, d] must
\* exist (IndexError otherwise); the subtraction is done in uint32
CIEdgeIndexError(raw, d) == d >= Len(raw)
\* a readout that hands back the raw counts
CIEdgeReadoutRaw(raw, d, cnt) ==
    Slice(raw, d, d + cnt)
CIEdgeReadout(raw, d, cnt) ==
    LET w == Slice(raw, d, d + cnt)
    IN  [j \in 1..Len(w) |-> Sub32(w[j], raw[d + 1])]

\* a uint32 difference as a number (the differences met here are small)
ToInt(u) == u[1] * Half + u[2]

\* NidaqSequencerCIEdgeRateGroup.readout, one channel:
\* np.diff(data_buffer[j, d:d+n+1]) * self.sample_rate
CIEdgeRateReadout(raw, d, cnt, rate) ==
    LET w == Slice(raw, d, d + cnt + 1)
    IN  [j \in 1..(Len(w) - 1) |-> ToInt(Sub32(w[j + 1], w[j])) * rate]

\* the readout of a whole input group of one channel per row; every row of
\* the buffer holds the same raw stream here
GroupReadout(kind, names, raw, is, rd) ==
    [s \in Range(names) |->
        IF kind = "AIVoltage" THEN AIReadout(raw, rd[s], is[s])
        ELSE CIEdgeReadout(raw, rd[s], is[s])]

GroupIndexError(kind, names, raw, rd) ==
    /\ kind = "CIEdge"
    /\ \E s \in Range(names) : CIEdgeIndexError(raw, rd[s])

(***************************************************************************)
(* A counter input group on its own: build, then readout                   *)
(***************************************************************************)
CounterKinds == {"CIEdge", "CIEdgeRate"}
CounterNames == <<"c1", "c2">>
SampleRates == {1, 1000}

\* the edges counted since the task started, sample by sample: the count
\* stays, grows by one per sample, or grows faster and faster
CountShapes == {"flat", "unit", "grow"}
TrueCounts(f, len) ==
    [j \in 1..len |-> IF f = "flat" THEN 0 ELSE IF f = "unit" THEN j ELSE j * j]

\* cumulative counts as the reader hands them back: the uint32 counter
\* starts from a base; the second base makes it roll over inside the buffer
RawCounts(b, counts) == [j \in 1..Len(counts) |-> Add32(b, U32(counts[j]))]
CountBuffers(len) ==
    {RawCounts(b, TrueCounts(f, len)) : b \in RawBases, f \in CountShapes}

\* the group after __init__, with the arguments its build will get
CounterInit ==
    /\ CtlInit
    /\ SeqQuiet
    /\ AppQuiet
    /\ dg = <<>>
    /\ pr = <<>>
    /\ cg \in [pc : {"new"},
               kind : CounterKinds,
               n_samples : [Range(CounterNames) -> 0..MaxSamples],
               readout_delays : [Range(CounterNames) -> 0..MaxDelay],
               sample_rate : SampleRates,
               n_samples_in_task : {0},
               buffer : {<<>>},
               counts : {<<>>},
               data : {<<>>},
               err : {"none"}]

\* build(): the parameters are stored and n_samples_in_task is computed
CgBuild ==
    /\ cg.pc = "new"
    /\ cg' = [cg EXCEPT !.pc = "built",
                        !.n_samples_in_task =
                            SamplesInTask(cg.kind, CounterNames, cg.n_samples, cg.readout_delays)]
    /\ UNCHANGED <<ctlVars, seqVars, dg, pr, appVars>>

\* the channels whose data the readout loop sets before it stops at the
\* first channel whose row cannot be indexed at its delay
CgFilled(buf) ==
    LET bad == {j \in 1..Len(CounterNames) :
                    /\ cg.kind = "CIEdge"
                    /\ CIEdgeIndexError(buf[CounterNames[j]], cg.readout_delays[CounterNames[j]])}
        upto == IF bad = {} THEN Len(CounterNames)
                ELSE (CHOOSE j \in bad : \A q \in bad : j <= q) - 1
    IN  {CounterNames[j] : j \in 1..upto}

\* readout(): n_samples_in_task samples per channel are read into the uint32
\* buffer, self.data = {}, then one entry per channel; `counts` keeps the
\* edges that really arrived on every channel
CgReadout ==
    /\ cg.pc = "built"
    /\ \E from \in [Range(CounterNames) -> RawBases] :
       \E shape \in [Range(CounterNames) -> CountShapes] :
         LET counts == [s \in Range(CounterNames) |->
                            TrueCounts(shape[s], cg.n_samples_in_task)]
             buf == [s \in Range(CounterNames) |-> RawCounts(from[s], counts[s])]
             filled == CgFilled(buf)
             d == [s \in filled |->
                     IF cg.kind = "CIEdge"
                     THEN CIEdgeReadout(buf[s], cg.readout_delays[s], cg.n_samples[s])
                     ELSE CIEdgeRateReadout(buf[s], cg.readout_delays[s], cg.n_samples[s],
                                            cg.sample_rate)]
         IN  cg' = [cg EXCEPT !.buffer = buf,
                              !.counts = counts,
                              !.data = d,
                              !.pc = IF filled = Range(CounterNames) THEN "done" ELSE "raised",
                              !.err = IF filled = Range(CounterNames) THEN "none" ELSE "IndexError"]
    /\ UNCHANGED <<ctlVars, seqVars, dg, pr, appVars>>

CounterNext ==
    \/ CgBuild
    \/ CgReadout

SpecCounter == CounterInit /\ [][CounterNext]_vars

(***************************************************************************)
(* An analog or edge-counting input group on its own, built with the       *)
(* dictionaries of a whole request                                         *)
(***************************************************************************)
IgKinds == {"AIVoltage", "CIEdge"}

\* the channel names of the request: the group's own and that of another group
IgRequestNames == Range(CounterNames) \cup {"other"}

InputGroupInit ==
    /\ CtlInit
    /\ SeqQuiet
    /\ AppQuiet
    /\ dg = <<>>
    /\ pr = <<>>
    /\ cg \in [pc : {"new"},
               kind : IgKinds,
               n_samples_arg : [IgRequestNames -> 0..MaxSamples],
               readout_delays_arg : [IgRequestNames -> 0..MaxDelay],
               n_samples : {<<>>},
               readout_delays : {<<>>},
               n_samples_in_task : {0},
               data : {<<>>},
               err : {"none"}]

\* build(n_samples, ..., readout_delays): the group keeps the entries of its
\* own channels and computes n_samples_in_task
IgBuild ==
    /\ cg.pc = "new"
    /\ cg' = [cg EXCEPT !.pc = "built",
                        !.n_samples = [s \in Range(CounterNames) |-> cg.n_samples_arg[s]],
                        !.readout_delays =
                            [s \in Range(CounterNames) |-> cg.readout_delays_arg[s]],
                        !.n_samples_in_task =
                            SamplesInTask(cg.kind, CounterNames, cg.n_samples_arg,
                                          cg.readout_delays_arg)]
    /\ UNCHANGED <<ctlVars, seqVars, dg, pr, appVars>>

\* readout(): n_samples_in_task samples per channel are read, then every
\* channel's window is cut out
IgReadout ==
    /\ cg.pc = "built"
    /\ \E raw \in RawBuffers(cg.kind, cg.n_samples_in_task) :
         IF GroupIndexError(cg.kind, CounterNames, raw, cg.readout_delays)
         THEN cg' = [cg EXCEPT !.pc = "raised", !.err = "IndexError"]
         ELSE cg' = [cg EXCEPT !.pc = "done",
                               !.data = GroupReadout(cg.kind, CounterNames, raw,
                                                     cg.n_samples, cg.readout_delays)]
    /\ UNCHANGED <<ctlVars, seqVars, dg, pr, appVars>>

InputGroupNext == IgBuild \/ IgReadout

SpecInputGroup == InputGroupInit /\ [][InputGroupNext]_vars

(***************************************************************************)
(* A digital output group on its own: validation, packing, build, set      *)
(***************************************************************************)
\* width of a port in lines (np.uint32 port samples)
PortSize == 32

DoNames == <<"p", "q">>
DoPorts == {"Dev1/port0", "Dev1/port1"}

\* channel configurations: any line of the port for the first channel, an
\* end line of either port for the second; the constructor checks nothing
DoConfigs ==
    {[s \in Range(DoNames) |-> IF s = "p" THEN [port |-> "Dev1/port0", line |-> l1]
                                         ELSE [port |-> pt, line |-> l2]] :
        l1 \in 0..(PortSize - 1), l2 \in {0, PortSize - 1}, pt \in DoPorts}

\* samples of array data; 2 and 256 are not binary
DoValues == {0, 1, 2, 256}
\* integer arrays of 1..MaxLen samples; a non-binary sample, if any, is last
DoVectors ==
    {v \in UNION {[1..l -> DoValues] : l \in 1..MaxLen} :
        \A j \in 1..Len(v) : j < Len(v) => v[j] \in {0, 1}}
\* Python integers passed to set()
DoScalars == {-1, 0, 1, 2, 256, 257}

\* np.array(data, dtype=np.uint8) of an integer array: the cast keeps the
\* low 8 bits
Cast8(v) == v % 256

\* _validate_data on an array: the mask is computed on the cast samples
DoArrayRejected(v) == \E j \in 1..Len(v) : Cast8(v[j]) /= 0 /\ Cast8(v[j]) /= 1

\* _validate_data on a Python integer: inside 0..255 the conversion is
\* exact; outside, NumPy either wraps it or raises OverflowError (which the
\* bare except turns into TypeError), depending on its version
DoScalarOutcomes(v) ==
    LET byValue == IF Cast8(v) \in {0, 1} THEN "ok" ELSE "ValueError"
    IN  IF v \in 0..255 THEN {byValue} ELSE {byValue, "TypeError"}

RECURSIVE Shl32(_, _)
\* u * 2^k in uint32
Shl32(u, k) == IF k = 0 THEN u ELSE Shl32(Add32(u, u), k - 1)

\* bit k of a uint32
Bit32(u, k) ==
    IF k < 16 THEN (u[2] \div 2^k) % 2 ELSE (u[1] \div 2^(k - 16)) % 2

\* a packing that leaves every line at bit 0
LineWeightUnshifted(v, line) == U32(v)

\* np.array((2**line_num) * sample, dtype=np.uint32)
LineWeight(v, line) == Shl32(U32(v), line)

\* the channels of a port, in configuration order (port_line_groups)
PortLines(config, port) ==
    SelectSeq(DoNames, LAMBDA s : config[s].port = port)

\* `data += ...` needs every stream to have n_samples entries or one entry
DoBroadcasts(data, ns) == \A s \in DOMAIN data : Len(data[s]) \in {1, ns}

RECURSIVE PortSample(_, _, _, _, _)
\* sample j of a port: the sum over its lines from the m-th on, in uint32
PortSample(config, data, lines, j, m) ==
    IF m > Len(lines) THEN <<0, 0>>
    ELSE LET s == lines[m]
             v == IF Len(data[s]) = 1 THEN data[s][1] ELSE data[s][j]
         IN  Add32(LineWeight(v, config[s].line), PortSample(config, data, lines, j, m + 1))

\* _convert_line_data_to_port_data
ConvertLineDataToPortData(config, data, ns) ==
    [port \in {config[s].port : s \in Range(DoNames)} |->
        [j \in 1..ns |-> PortSample(config, data, PortLines(config, port), j, 1)]]

\* the group after __init__, with the data its build will get
DigitalInit ==
    /\ CtlInit
    /\ SeqQuiet
    /\ AppQuiet
    /\ cg = <<>>
    /\ pr = <<>>
    /\ dg \in [pc : {"new"},
               config : DoConfigs,
               given : [Range(DoNames) -> DoVectors],
               data : {<<>>},
               n_samples : {0},
               port_data : {<<>>},
               setpoint : {0},
               err : {"none"}]

\* build(): validate every channel, save the data, pack it, write it to
\* the task
DgBuild ==
    /\ dg.pc = "new"
    /\ \E hw \in {"ok", "fail"} :
         LET ns == Max({Len(dg.given[s]) : s \in Range(DoNames)}) IN
         IF \E s \in Range(DoNames) : DoArrayRejected(dg.given[s])
         THEN dg' = [dg EXCEPT !.pc = "raised", !.err = "ValueError"]
         ELSE IF ~DoBroadcasts(dg.given, ns)
         THEN dg' = [dg EXCEPT !.pc = "raised", !.err = "ValueError",
                               !.data = dg.given, !.n_samples = ns]
         ELSE dg' = [dg EXCEPT !.pc = IF hw = "ok" THEN "built" ELSE "raised",
                               !.err = IF hw = "ok" THEN "none" ELSE "RuntimeError",
                               !.data = dg.given,
                               !.n_samples = ns,
                               !.port_data = ConvertLineDataToPortData(dg.config, dg.given, ns)]
    /\ UNCHANGED <<ctlVars, seqVars, cg, pr, appVars>>

\* set(output_name, setpoint): validate the setpoint, then write it with a
\* throwaway task
DgSet ==
    /\ dg.pc = "new"
    /\ \E v \in DoScalars, hw \in {"ok", "fail"} :
         \E o \in DoScalarOutcomes(v) :
            dg' = [dg EXCEPT !.pc = IF o = "ok" /\ hw = "ok" THEN "set" ELSE "set_raised",
                             !.setpoint = v,
                             !.err = IF o /= "ok" THEN o
                                     ELSE IF hw = "ok" THEN "none" ELSE "DaqError"]
    /\ UNCHANGED <<ctlVars, seqVars, cg, pr, appVars>>

DigitalNext ==
    \/ DgBuild
    \/ DgSet

SpecDigital == DigitalInit /\ [][DigitalNext]_vars

(***************************************************************************)
(* Sequencer: construction                                                 *)
(***************************************************************************)
\* SequenceControllerBase.__init__: self.sequencer = NidaqSequencer(inputs=,
\* outputs=, clock_device=, clock_channel=)
ControllerInit ==
    /\ origin = "none"
    /\ origin' = "base"
    /\ IF Binds(SequencerInitParams, SequencerInitParams, ControllerInitSupplied)
       THEN sq_pc' = "idle" /\ UNCHANGED <<err, errAt>>
       ELSE sq_pc' = "ctor_raised" /\ err' = "TypeError" /\ errAt' = "ctor"
    /\ UNCHANGED <<ctlVars, grpVars, got, idx, output_data, input_samples, readout_delays, soft_start, rd_given,
                   clock, task, nsit, hasData, gdata, log>>

\* the attributes an output group has: those of the output group classes of
\* nidaqsequenceroutputgroup.py, or -- for a subclass made to fit the
\* sequencer -- source_names as well
OutputGroupAttributes == {{"channel_names"}, {"channel_names", "source_names"}}

\* PLEControllerPulsedRepumpSegmented.__init__: NidaqSequencer(inputs=,
\* outputs=, clock_device=, clock_channel=, clock_terminal=); the body of
\* NidaqSequencer.__init__ reads output_group.source_names
SegmentedInit ==
    /\ origin = "none"
    /\ origin' = "direct"
    /\ \E attrs \in OutputGroupAttributes :
         IF ~Binds(SequencerInitParams, SequencerInitParams, SegmentedInitSupplied)
         THEN sq_pc' = "ctor_raised" /\ err' = "TypeError" /\ errAt' = "ctor"
         ELSE IF "source_names" \notin attrs
         THEN sq_pc' = "ctor_raised" /\ err' = "AttributeError" /\ errAt' = "ctor"
         ELSE sq_pc' = "idle" /\ UNCHANGED <<err, errAt>>
    /\ UNCHANGED <<ctlVars, grpVars, got, idx, output_data, input_samples, readout_delays, soft_start, rd_given,
                   clock, task, nsit, hasData, gdata, log>>

(***************************************************************************)
(* Sequencer: run_sequence                                                 *)
(***************************************************************************)
\* an exception leaves run_sequence; inside the `with` block the clock task
\* is closed on the way out, nothing else is
Raise(e) ==
    /\ sq_pc' = "raised"
    /\ err' = e
    /\ errAt' = sq_pc
    /\ clock' = IF clock \in {"committed", "started"} THEN "closed" ELSE clock

\* lines 111-115: readout_delays = self._parse_sequence_params(...)
Validate ==
    /\ sq_pc = "idle"
    /\ LET r == ParseSequenceParams(output_data, input_samples, readout_delays) IN
        /\ readout_delays' = r.rd
        /\ IF r.err = "none"
           THEN sq_pc' = "soft" /\ idx' = 1 /\ UNCHANGED <<err, errAt, clock>>
           ELSE Raise(r.err) /\ UNCHANGED idx
    /\ UNCHANGED <<ctlVars, grpVars, got, origin, output_data, input_samples, soft_start, rd_given,
                   task, nsit, hasData, gdata, log>>

\* a soft start of every output the dictionary names, whatever its flag
SoftWantedAnyFlag(name) ==
    /\ name \in DOMAIN soft_start
    /\ name \in OutputNames

\* lines 118-122: one iteration of `for name in soft_start`
SoftWanted(name) ==
    /\ name \in DOMAIN soft_start
    /\ name \in OutputNames
    /\ soft_start[name]

SoftStart ==
    /\ sq_pc = "soft"
    /\ idx <= Len(SoftOrder)
    /\ LET name == SoftOrder[idx] IN
        IF ~SoftWanted(name)
        THEN idx' = idx + 1 /\ UNCHANGED <<sq_pc, err, errAt, clock, log>>
        ELSE IF Len(output_data[name]) = 0
        THEN Raise("IndexError") /\ UNCHANGED <<idx, log>>
        ELSE \E hw \in {"ok", "fail"} :
               LET o == SetOutcome(name, output_data[name][1], hw) IN
               IF o = "ok"
               THEN /\ log' = Append(log, Event("set", name, output_data[name][1]))
                    /\ idx' = idx + 1
                    /\ UNCHANGED <<sq_pc, err, errAt, clock>>
               ELSE Raise(o) /\ UNCHANGED <<idx, log>>
    /\ UNCHANGED <<ctlVars, grpVars, got, origin, output_data, input_samples, readout_delays, soft_start,
                   rd_given, task, nsit, hasData, gdata>>

\* lines 125-136: the clock task is created, configured and committed
ClockCreate ==
    /\ sq_pc = "soft"
    /\ idx > Len(SoftOrder)
    /\ \E hw \in {"ok", "fail"} :
         IF hw = "ok"
         THEN /\ clock' = "committed"
              /\ sq_pc' = "in_build"
              /\ idx' = 1
              /\ UNCHANGED <<err, errAt>>
         ELSE /\ clock' = "closed"
              /\ sq_pc' = "raised"
              /\ err' = "DaqError"
              /\ errAt' = "clock"
              /\ UNCHANGED idx
    /\ log' = Append(log, Event("create", "clock", 0))
    /\ UNCHANGED <<ctlVars, grpVars, got, origin, output_data, input_samples, readout_delays, soft_start,
                   rd_given, task, nsit, hasData, gdata>>

\* a sequencer that starts the clock as soon as the inputs are armed
AfterInStartClock(j) ==
    IF j < Len(InputGroupNames) THEN <<"in_build", j + 1>> ELSE <<"clk_start", 1>>

\* where run_sequence continues after the idx-th input task was started
AfterInStart(j) ==
    IF j < Len(InputGroupNames) THEN <<"in_build", j + 1>> ELSE <<"out_build", 1>>

\* where run_sequence continues after the idx-th output task was started
AfterOutStart(j) ==
    IF j < Len(OutputGroupNames) THEN <<"out_build", j + 1>> ELSE <<"clk_start", 1>>

\* lines 141-146: self.inputs[name].build(...)
InBuild ==
    /\ sq_pc = "in_build"
    /\ LET g == InputGroupNames[idx] IN
       \E req \in BuildRequired(InputBuildParams, InputBuildSupplied), hw \in {"ok", "fail"} :
         IF ~Binds(InputBuildParams, req, InputBuildSupplied)
         THEN Raise("TypeError") /\ UNCHANGED <<task, nsit, log>>
         ELSE /\ nsit' = [nsit EXCEPT ![g] =
                    SamplesInTask(GroupKind[g], SourceNames[g], input_samples, readout_delays)]
              /\ log' = Append(log, Event("build", g, 0))
              /\ IF hw = "ok"
                 THEN /\ task' = [task EXCEPT ![g] = "committed"]
                      /\ sq_pc' = "in_start"
                      /\ UNCHANGED <<err, errAt, clock>>
                 ELSE /\ task' = [task EXCEPT ![g] = "created"]
                      /\ Raise("DaqError")
    /\ UNCHANGED <<ctlVars, grpVars, got, origin, idx, output_data, input_samples, readout_delays, soft_start,
                   rd_given, hasData, gdata>>

\* line 149: self.inputs[name].task.start()
InStart ==
    /\ sq_pc = "in_start"
    /\ LET g == InputGroupNames[idx] IN
       \E hw \in {"ok", "fail"} :
         IF hw = "ok"
         THEN /\ task' = [task EXCEPT ![g] = "started"]
              /\ log' = Append(log, Event("start", g, 0))
              /\ sq_pc' = AfterInStart(idx)[1]
              /\ idx' = AfterInStart(idx)[2]
              /\ UNCHANGED <<err, errAt, clock>>
         ELSE Raise("DaqError") /\ UNCHANGED <<task, log, idx>>
    /\ UNCHANGED <<ctlVars, grpVars, got, origin, output_data, input_samples, readout_delays, soft_start,
                   rd_given, nsit, hasData, gdata>>

\* lines 153-157: self.outputs[name].build(...); the group stores the data
\* it is given before it creates its task
OutBuild ==
    /\ sq_pc = "out_build"
    /\ LET g == OutputGroupNames[idx] IN
       \E req \in BuildRequired(OutputBuildParams, OutputBuildSupplied), hw \in {"ok", "fail"} :
         IF ~Binds(OutputBuildParams, req, OutputBuildSupplied)
         THEN Raise("TypeError") /\ UNCHANGED <<task, nsit, log, hasData, gdata>>
         ELSE /\ gdata' = [gdata EXCEPT ![g] = [s \in Range(SourceNames[g]) |-> output_data[s]]]
              /\ hasData' = [hasData EXCEPT ![g] = TRUE]
              /\ nsit' = [nsit EXCEPT ![g] = SamplesToWrite(SourceNames[g], output_data)]
              /\ log' = Append(log, Event("build", g, 0))
              /\ IF hw = "ok"
                 THEN /\ task' = [task EXCEPT ![g] = "committed"]
                      /\ sq_pc' = "out_start"
                      /\ UNCHANGED <<err, errAt, clock>>
                 ELSE /\ task' = [task EXCEPT ![g] = "created"]
                      /\ Raise("DaqError")
    /\ UNCHANGED <<ctlVars, grpVars, got, origin, idx, output_data, input_samples, readout_delays, soft_start,
                   rd_given>>

\* line 158: self.outputs[name].task.start()
OutStart ==
    /\ sq_pc = "out_start"
    /\ LET g == OutputGroupNames[idx] IN
       \E hw \in {"ok", "fail"} :
         IF hw = "ok"
         THEN /\ task' = [task EXCEPT ![g] = "started"]
              /\ log' = Append(log, Event("start", g, 0))
              /\ sq_pc' = AfterOutStart(idx)[1]
              /\ idx' = AfterOutStart(idx)[2]
              /\ UNCHANGED <<err, errAt, clock>>
         ELSE Raise("DaqError") /\ UNCHANGED <<task, log, idx>>
    /\ UNCHANGED <<ctlVars, grpVars, got, origin, output_data, input_samples, readout_delays, soft_start,
                   rd_given, nsit, hasData, gdata>>

\* line 161: clock_task.start()
ClockStart ==
    /\ sq_pc = "clk_start"
    /\ \E hw \in {"ok", "fail"} :
         IF hw = "ok"
         THEN /\ clock' = "started"
              /\ log' = Append(log, Event("start", "clock", 0))
              /\ sq_pc' = "wait_in"
              /\ idx' = 1
              /\ UNCHANGED <<err, errAt>>
         ELSE Raise("DaqError") /\ UNCHANGED <<log, idx>>
    /\ UNCHANGED <<ctlVars, grpVars, got, origin, output_data, input_samples, readout_delays, soft_start,
                   rd_given, task, nsit, hasData, gdata>>

\* where run_sequence continues after a step of one of its later loops
AfterWaitIn(j) ==
    IF j < Len(InputGroupNames) THEN <<"wait_in", j + 1>> ELSE <<"wait_out", 1>>
AfterWaitOut(j) ==
    IF j < Len(OutputGroupNames) THEN <<"wait_out", j + 1>> ELSE <<"readout", 1>>
\* a run_sequence that returns after the readout and closes no group
AfterReadoutReturn(j) ==
    IF j < Len(InputGroupNames) THEN <<"readout", j + 1>> ELSE <<"returned", 0>>
AfterReadout(j) ==
    IF j < Len(InputGroupNames) THEN <<"readout", j + 1>> ELSE <<"close_in", 1>>
AfterCloseIn(j) ==
    IF j < Len(InputGroupNames) THEN <<"close_in", j + 1>> ELSE <<"close_out", 1>>
AfterCloseOut(j) ==
    IF j < Len(OutputGroupNames) THEN <<"close_out", j + 1>> ELSE <<"returned", 0>>

\* line 165: self.inputs[name].task.wait_until_done(timeout=timeout)
WaitIn ==
    /\ sq_pc = "wait_in"
    /\ \E hw \in {"ok", "fail"} :
         IF hw = "ok"
         THEN /\ sq_pc' = AfterWaitIn(idx)[1]
              /\ idx' = AfterWaitIn(idx)[2]
              /\ UNCHANGED <<err, errAt, clock>>
         ELSE Raise("Timeout") /\ UNCHANGED idx
    /\ UNCHANGED <<ctlVars, grpVars, got, origin, output_data, input_samples, readout_delays, soft_start,
                   rd_given, task, nsit, hasData, gdata, log>>

\* line 167: self.outputs[name].task.wait_until_done(timeout=timeout)
WaitOut ==
    /\ sq_pc = "wait_out"
    /\ \E hw \in {"ok", "fail"} :
         IF hw = "ok"
         THEN /\ sq_pc' = AfterWaitOut(idx)[1]
              /\ idx' = AfterWaitOut(idx)[2]
              /\ UNCHANGED <<err, errAt, clock>>
         ELSE Raise("Timeout") /\ UNCHANGED idx
    /\ UNCHANGED <<ctlVars, grpVars, got, origin, output_data, input_samples, readout_delays, soft_start,
                   rd_given, task, nsit, hasData, gdata, log>>

\* line 171: self.inputs[name].readout()
Readout ==
    /\ sq_pc = "readout"
    /\ LET g == InputGroupNames[idx] IN
       \E raw \in RawBuffers(GroupKind[g], nsit[g]), hw \in {"ok", "fail"} :
         IF hw = "fail"
         THEN Raise("DaqError") /\ UNCHANGED <<idx, hasData, gdata>>
         ELSE IF GroupIndexError(GroupKind[g], SourceNames[g], raw, readout_delays)
         THEN /\ Raise("IndexError")
              /\ hasData' = [hasData EXCEPT ![g] = TRUE]
              /\ gdata' = [gdata EXCEPT ![g] = <<>>]
              /\ UNCHANGED idx
         ELSE /\ hasData' = [hasData EXCEPT ![g] = TRUE]
              /\ gdata' = [gdata EXCEPT ![g] =
                    GroupReadout(GroupKind[g], SourceNames[g], raw, input_samples, readout_delays)]
              /\ sq_pc' = AfterReadout(idx)[1]
              /\ idx' = AfterReadout(idx)[2]
              /\ UNCHANGED <<err, errAt, clock>>
    /\ UNCHANGED <<ctlVars, grpVars, got, origin, output_data, input_samples, readout_delays, soft_start,
                   rd_given, task, nsit, log>>

\* line 175: self.inputs[name].close()
CloseIn ==
    /\ sq_pc = "close_in"
    /\ LET g == InputGroupNames[idx] IN
        /\ log' = Append(log, Event("close", g, 0))
        /\ \E hw \in {"ok", "fail"} :
             IF hw = "ok"
             THEN /\ task' = [task EXCEPT ![g] = "closed"]
                  /\ sq_pc' = AfterCloseIn(idx)[1]
                  /\ idx' = AfterCloseIn(idx)[2]
                  /\ UNCHANGED <<err, errAt, clock>>
             ELSE Raise("DaqError") /\ UNCHANGED <<task, idx>>
    /\ UNCHANGED <<ctlVars, grpVars, got, origin, output_data, input_samples, readout_delays, soft_start,
                   rd_given, nsit, hasData, gdata>>

\* line 177: self.outputs[name].close(); after the last one the `with`
\* block ends and closes the clock task
CloseOut ==
    /\ sq_pc = "close_out"
    /\ LET g == OutputGroupNames[idx] IN
        /\ log' = Append(log, Event("close", g, 0))
        /\ \E hw \in {"ok", "fail"} :
             IF hw = "ok"
             THEN /\ task' = [task EXCEPT ![g] = "closed"]
                  /\ sq_pc' = AfterCloseOut(idx)[1]
                  /\ idx' = AfterCloseOut(idx)[2]
                  /\ clock' = IF AfterCloseOut(idx)[1] = "returned" THEN "closed" ELSE clock
                  /\ UNCHANGED <<err, errAt>>
             ELSE Raise("DaqError") /\ UNCHANGED <<task, idx>>
    /\ UNCHANGED <<ctlVars, grpVars, got, origin, output_data, input_samples, readout_delays, soft_start,
                   rd_given, nsit, hasData, gdata>>

(***************************************************************************)
(* NidaqSequencer.get_data()                                               *)
(***************************************************************************)
\* `data |= group.data` fails on a group whose data is still None
GetDataFails == \E g \in Groups : ~hasData[g]

RECURSIVE MergeData(_, _)
MergeData(order, j) ==
    IF j > Len(order) THEN <<>>
    ELSE MergeData(order, j + 1) @@ gdata[order[j]]

\* the union of the groups' data, inputs first; a later group wins a clash
GetData == MergeData(InputGroupNames \o OutputGroupNames, 1)

\* input_source_group / output_source_group: the group a source belongs to
OwnerGroup(name) == CHOOSE g \in Groups : name \in Range(SourceNames[g])

\* the lists of names get_data is asked for
NameLists == {<<>>, <<"a">>, <<"x">>, <<"a", "x">>, <<"x", "nosuch">>}

RECURSIVE GetDataNames(_, _, _)
\* lines 209-224: the loop over names from the j-th on, acc being the
\* dictionary so far; `data |= data_dict` merges the whole dictionary of the
\* owning group
GetDataNames(names, j, acc) ==
    IF j > Len(names) THEN [out |-> acc, err |-> "none"]
    ELSE IF names[j] \notin InputNames \cup OutputNames THEN [out |-> acc, err |-> "KeyError"]
    ELSE IF ~hasData[OwnerGroup(names[j])] THEN [out |-> acc, err |-> "TypeError"]
    ELSE GetDataNames(names, j + 1, gdata[OwnerGroup(names[j])] @@ acc)

\* get_data(names=L) after a completed sequence
GetDataCall ==
    /\ sq_pc = "returned"
    /\ \E L \in NameLists :
         LET r == GetDataNames(L, 1, <<>>)
         IN  got' = [names |-> L, out |-> r.out, err |-> r.err]
    /\ sq_pc' = "data_read"
    /\ UNCHANGED <<ctlVars, grpVars, origin, idx, err, errAt, output_data, input_samples,
                   readout_delays, soft_start, rd_given, clock, task, nsit, hasData, gdata, log>>

(***************************************************************************)
(* Specification of the sequencer                                          *)
(***************************************************************************)
SeqNext ==
    \/ ControllerInit
    \/ SegmentedInit
    \/ Validate
    \/ SoftStart
    \/ ClockCreate
    \/ InBuild
    \/ InStart
    \/ OutBuild
    \/ OutStart
    \/ ClockStart
    \/ WaitIn
    \/ WaitOut
    \/ Readout
    \/ CloseIn
    \/ CloseOut
    \/ GetDataCall

(***************************************************************************)
(* Specifications of the controller                                        *)
(***************************************************************************)
Step(t, top) ==
    \/ \E k \in 0..top : RnCall(t, k)
    \/ RnCheck(t)
    \/ RnReserve(t)
    \/ RnFor(t)
    \/ RnRun(t)
    \/ RnResume(t)
    \/ RnStopChk(t)
    \/ RnRelBusy(t)
    \/ RnRelStop(t)
    \/ \E nm \in SetNames, v \in SetValues : SoCall(t, nm, v)
    \/ SoCheck(t)
    \/ SoReserve(t)
    \/ SoWrite(t)
    \/ SoRelease(t)
    \/ Return(t)

\* one caller: a single-threaded consumer drives the controller
SoloNext ==
    \/ Step("t1", MaxN)
    \/ ConsumerStop("t1")
    \/ IdleStop

\* the controller as constructed, its sequencer not yet asked to run
Init == CtlInit /\ SeqQuiet /\ GrpQuiet

SpecSolo == Init /\ [][SoloNext]_vars

\* two caller threads and the GUI thread share the controller
DuoNext ==
    \/ \E t \in Threads : Step(t, MaxNDuo)
    \/ GuiCheckStop
    \/ GuiCheckBusy
    \/ GuiSetStop

SpecDuo == Init /\ [][DuoNext]_vars

\* one sequencer, constructed and then asked to run the request once
RequestInit == CtlInit /\ SeqInit /\ GrpQuiet

SpecSeq == RequestInit /\ [][SeqNext]_vars

(***************************************************************************)
(* A batch whose repetitions run the sequencer                             *)
(***************************************************************************)
\* a controller whose constructor built its sequencer with a clock terminal
\* and whose configure_sequence stored a valid request
BatchInit ==
    /\ CtlInit
    /\ GrpQuiet
    /\ origin = "direct"
    /\ sq_pc = "ready"
    /\ idx = 0
    /\ err = "none"
    /\ errAt = "none"
    /\ output_data = [s \in OutputNames |-> IF s = "x" THEN <<1, 0>> ELSE <<0, 0>>]
    /\ input_samples = [s \in InputNames |-> 1]
    /\ readout_delays = <<>>
    /\ soft_start \in Dicts(Range(SoftOrder), BOOLEAN)
    /\ rd_given = <<>>
    /\ clock = "none"
    /\ task = [g \in Groups |-> "none"]
    /\ nsit = [g \in Groups |-> 0]
    /\ hasData = [g \in Groups |-> FALSE]
    /\ gdata = [g \in Groups |-> <<>>]
    /\ log = <<>>
    /\ got = <<>>

\* _run_sequence, lines 184-191: self.sequencer.run_sequence(...) is entered
\* with the controller's stored request
RepCall(t) ==
    /\ pc[t] = "rn_run"
    /\ sq_pc \in {"ready", "returned"}
    /\ runs' = [runs EXCEPT ![t] = @ + 1]
    /\ pc' = [pc EXCEPT ![t] = "rn_seq"]
    /\ sq_pc' = "idle"
    /\ idx' = 0
    /\ rd_given' = readout_delays
    /\ log' = Append(log, Event("call", t, runs[t] + 1))
    /\ UNCHANGED <<busy, stop, n, i, yielded, res, ops, stopAt, stopAtStart, op, soArg, gui,
                   origin, err, errAt, output_data, input_samples, readout_delays, soft_start,
                   clock, task, nsit, hasData, gdata, got, grpVars>>

\* _run_sequence, lines 192-196, and the yield of line 256: run_sequence has
\* returned, get_data() is read and handed to process_method, which may raise
RepDone(t) ==
    /\ pc[t] = "rn_seq"
    /\ sq_pc = "returned"
    /\ \E outcome \in {"ok", "raise"} :
         IF outcome = "ok" /\ ~GetDataFails
         THEN /\ yielded' = [yielded EXCEPT ![t] = Append(@, runs[t])]
              /\ pc' = [pc EXCEPT ![t] = "rn_yield"]
              /\ UNCHANGED res
         ELSE /\ pc' = [pc EXCEPT ![t] = "ended"]
              /\ res' = [res EXCEPT ![t] = "raised"]
              /\ UNCHANGED yielded
    /\ UNCHANGED <<busy, stop, n, i, runs, ops, stopAt, stopAtStart, op, soArg, gui, seqVars, grpVars>>

\* run_sequence raised: the exception passes through _run_sequence and ends
\* the generator
RepRaise(t) ==
    /\ pc[t] = "rn_seq"
    /\ sq_pc = "raised"
    /\ pc' = [pc EXCEPT ![t] = "ended"]
    /\ res' = [res EXCEPT ![t] = "raised"]
    /\ UNCHANGED <<busy, stop, n, i, runs, yielded, ops, stopAt, stopAtStart, op, soArg, gui,
                   seqVars, grpVars>>

BatchNext ==
    \/ \E k \in 0..MaxN : RnCall("t1", k)
    \/ RnCheck("t1")
    \/ RnReserve("t1")
    \/ RnFor("t1")
    \/ RepCall("t1")
    \/ RepDone("t1")
    \/ RepRaise("t1")
    \/ RnResume("t1")
    \/ RnStopChk("t1")
    \/ RnRelBusy("t1")
    \/ RnRelStop("t1")
    \/ Return("t1")
    \/ ConsumerStop("t1")
    \/ Validate
    \/ SoftStart
    \/ ClockCreate
    \/ InBuild
    \/ InStart
    \/ OutBuild
    \/ OutStart
    \/ ClockStart
    \/ WaitIn
    \/ WaitOut
    \/ Readout
    \/ CloseIn
    \/ CloseOut

\* one consumer iterating run_n_sequences, every repetition a run_sequence
SpecBatch == BatchInit /\ [][BatchNext]_vars

(***************************************************************************)
(* PLE controllers: configure_sequence                                     *)
(***************************************************************************)
\* an attribute that is None (or not yet assigned), and one that holds v
Unset == <<>>
Set(v) == <<v>>

\* a number together with its Python type
PyInt(v) == [type |-> "int", v |-> v]
PyFloat(v) == [type |-> "float", v |-> v]
PyMul(a, b) ==
    [type |-> IF a.type = "int" /\ b.type = "int" THEN "int" ELSE "float", v |-> a.v * b.v]

\* the controller's identifiers of its two lasers, and the setpoints of the
\* repump laser
scan_laser_id == "x"
repump_laser_id == "y"
repump_laser_setpoints == [on |-> 1, off |-> 0]

\* clock rates (Hz) given to the continuous controller's constructor
ClockRates == {1000, 10}

\* scan parameters; voltages in volts, times in milliseconds
ExampleArgs ==
    [min |-> -1, max |-> 1, n_pixels_up |-> PyInt(10), n_pixels_down |-> PyInt(5),
     n_subpixels |-> PyInt(2), time_up |-> 1000, time_down |-> 500, time_repump |-> 0]
ShortArgs ==
    [min |-> 0, max |-> 1, n_pixels_up |-> PyInt(3), n_pixels_down |-> PyInt(1),
     n_subpixels |-> PyInt(2), time_up |-> 10, time_down |-> 3, time_repump |-> 2]

\* each of them, and each with one parameter replaced
ArgsAround(b) ==
    {b,
     [b EXCEPT !.max = b.min], [b EXCEPT !.max = b.min - 1],
     [b EXCEPT !.min = AoMin - 1], [b EXCEPT !.max = AoMax + 1],
     [b EXCEPT !.n_pixels_up = PyInt(0)], [b EXCEPT !.n_pixels_up = PyFloat(b.n_pixels_up.v)],
     [b EXCEPT !.n_pixels_down = PyInt(0)],
     [b EXCEPT !.n_subpixels = PyInt(0)], [b EXCEPT !.n_subpixels = PyFloat(b.n_subpixels.v)],
     [b EXCEPT !.time_up = 0], [b EXCEPT !.time_down = -1], [b EXCEPT !.time_repump = -1]}
ScanArgs == ArgsAround(ExampleArgs) \cup ArgsAround(ShortArgs)

\* Python's round() of the quotient num/den (num >= 0, den > 0): to the
\* nearest integer, a tie to the even one
RoundHalfUp(num, den) == (2 * num + den) \div (2 * den)

Round(num, den) ==
    LET q == num \div den
        r == num % den
    IN  IF 2 * r < den THEN q
        ELSE IF 2 * r > den THEN q + 1
        ELSE IF q % 2 = 0 THEN q ELSE q + 1

\* the first error of a list of check results
RECURSIVE FirstError(_)
FirstError(checks) ==
    IF checks = <<>> THEN "none"
    ELSE IF Head(checks) /= "none" THEN Head(checks)
    ELSE FirstError(Tail(checks))

\* `type(k) is not int or k < 1`
CountRejected(k) == k.type /= "int" \/ k.v < 1

\* the checks both controllers make after the range check
CheckCountsAndTimes(a) ==
    FirstError(<<IF CountRejected(a.n_pixels_up) THEN "ValueError" ELSE "none",
                 IF CountRejected(a.n_pixels_down) THEN "ValueError" ELSE "none",
                 IF CountRejected(a.n_subpixels) THEN "ValueError" ELSE "none",
                 IF ~(a.time_up > 0) THEN "ValueError" ELSE "none",
                 IF ~(a.time_down > 0) THEN "ValueError" ELSE "none",
                 IF a.time_repump < 0 THEN "ValueError" ELSE "none">>)

\* _validate_data of the analog output group on one value
AoValidate(v) == IF v < AoMin \/ v > AoMax THEN "ValueError" ELSE "none"

\* what self.outputs[self.scan_laser_id]._validate_data(data=...) of the
\* continuous controller meets: no group under that key ("absent"), a group
\* class of nidaqsequenceroutputgroup.py, whose _validate_data requires
\* output_name ("repository"), or a group whose _validate_data takes the
\* data alone ("compatible")
ScanLaserGroups == {"absent", "repository", "compatible"}

\* the range check of the continuous controller: min is validated twice
ValidateContinuous(group, a) ==
    FirstError(<<IF a.max > a.min
                 THEN IF group = "absent" THEN "KeyError"
                      ELSE IF group = "repository" THEN "TypeError"
                      ELSE FirstError(<<AoValidate(a.min), AoValidate(a.min)>>)
                 ELSE "ValueError",
                 CheckCountsAndTimes(a)>>)

\* the range check of the segmented controller, through the up-scan
\* sequencer's validate_output_data
ValidateSegmented(a) ==
    FirstError(<<IF a.max > a.min
                 THEN FirstError(<<AoValidate(a.min), AoValidate(a.max)>>)
                 ELSE "ValueError",
                 CheckCountsAndTimes(a)>>)

\* "Save the scan parameters"
ScanParams(a) ==
    [min |-> a.min, max |-> a.max, n_pixels_up |-> a.n_pixels_up,
     n_pixels_down |-> a.n_pixels_down, n_subpixels |-> a.n_subpixels,
     n_subpixels_up |-> PyMul(a.n_subpixels, a.n_pixels_up),
     n_subpixels_down |-> PyMul(a.n_subpixels, a.n_pixels_down),
     time_up |-> a.time_up, time_down |-> a.time_down, time_repump |-> a.time_repump]

\* a rational number, as numerator and denominator
Rat(num, den) == <<num, den>>

\* np.linspace(start, stop, num, endpoint=False), np.repeat, np.ones(k) * v
Linspace(start, end, num) ==
    [k \in 1..num |-> Rat(start * num + (k - 1) * (end - start), num)]
Repeat(a, repeats) == [j \in 1..(Len(a) * repeats) |-> a[((j - 1) \div repeats) + 1]]
Ones(k, v) == [j \in 1..k |-> Rat(v, 1)]

\* the schedule of the continuous controller; times are in milliseconds,
\* hence the factor 1000 next to the clock rate in Hz
ScheduleContinuous(a, clock_rate) ==
    LET p == ScanParams(a)
        up == Round(a.time_up * clock_rate, 1000 * p.n_subpixels_up.v)
        down == Round(a.time_down * clock_rate, 1000 * p.n_subpixels_down.v)
        repump == Round(a.time_repump * clock_rate, 1000)
        n_up == up * a.n_pixels_up.v * a.n_subpixels.v
        n_down == down * a.n_pixels_down.v * a.n_subpixels.v
    IN  [cycles_per_subpixel_up |-> up,
         cycles_per_subpixel_down |-> down,
         cycles_per_repump |-> repump,
         n_samples_repump |-> repump,
         n_samples_upscan |-> n_up,
         n_samples_downscan |-> n_down,
         n_samples_scan |-> n_up + n_down,
         n_samples_total |-> repump + n_up + n_down]

OutputDataContinuous(a, s) ==
    LET values_up == Linspace(a.min, a.max, a.n_pixels_up.v * a.n_subpixels.v)
        values_down == Linspace(a.max, a.min, a.n_pixels_down.v * a.n_subpixels.v)
    IN  (scan_laser_id :> (Ones(s.n_samples_repump, a.min)
                           \o Repeat(values_up, s.cycles_per_subpixel_up)
                           \o Repeat(values_down, s.cycles_per_subpixel_down)))
        @@ (repump_laser_id :> (Ones(s.n_samples_repump, repump_laser_setpoints.on)
                                \o Ones(s.n_samples_scan, repump_laser_setpoints.off)))

\* PLEControllerPulsedRepumpContinuous.configure_sequence on controller c
ConfigureContinuous(c, a) ==
    LET stored == [c EXCEPT !.args = Set(a),
                            !.params = Set(ScanParams(a)),
                            !.sequence_settings =
                                Set([scan |-> ScanParams(a), clock_rate |-> c.clock_rate])]
        v == ValidateContinuous(c.group, a)
    IN  IF v /= "none" THEN [stored EXCEPT !.outcome = v]
        ELSE LET s == ScheduleContinuous(a, c.clock_rate) IN
             [stored EXCEPT
                 !.outcome = "ok",
                 !.schedule = Set(s),
                 !.output_data = Set(OutputDataContinuous(a, s)),
                 !.soft_start = Set((scan_laser_id :> TRUE) @@ (repump_laser_id :> TRUE)),
                 !.input_samples = Set([g \in Range(InputGroupNames) |-> s.n_samples_scan]),
                 !.readout_delays = Set([g \in Range(InputGroupNames) |-> s.n_samples_repump]),
                 !.timeout = Set(Rat(1000 * s.n_samples_total + 1000 * c.clock_rate,
                                     c.clock_rate))]

\* the schedule of the segmented controller; sample rates in Hz
ScheduleSegmented(a) ==
    LET n_up == a.n_pixels_up.v * a.n_subpixels.v
        n_down == a.n_pixels_down.v * a.n_subpixels.v
    IN  [n_samples_repump |-> a.time_repump + 1,
         n_samples_upscan |-> n_up,
         n_samples_downscan |-> n_down,
         n_samples_scan |-> n_up + n_down,
         n_samples_total |-> a.time_repump + 1 + n_up + n_down,
         sample_rate_repump |-> Rat(1000, 1),
         sample_rate_upscan |-> Rat(1000 * n_up, a.time_up),
         sample_rate_downscan |-> Rat(1000 * n_down, a.time_down)]

OutputDataSegmented(a, s) ==
    [repump |-> (repump_laser_id :>
                    (Ones(s.n_samples_repump - 1, repump_laser_setpoints.on)
                     \o Ones(2, repump_laser_setpoints.off))),
     upscan |-> (scan_laser_id :> Linspace(a.min, a.max, s.n_samples_upscan)),
     downscan |-> (scan_laser_id :> Linspace(a.max, a.min, s.n_samples_downscan))]

\* PLEControllerPulsedRepumpSegmented.configure_sequence on controller c:
\* the input dictionaries are built from `input_channels_group`, an attribute
\* NidaqSequencer does not have (its dictionaries are input_source_group and
\* output_source_group), so the first of them raises AttributeError
ConfigureSegmented(c, a) ==
    LET stored == [c EXCEPT !.args = Set(a),
                            !.params = Set(ScanParams(a)),
                            !.sequence_settings = Set([scan |-> ScanParams(a)])]
        v == ValidateSegmented(a)
    IN  IF v /= "none" THEN [stored EXCEPT !.outcome = v]
        ELSE LET s == ScheduleSegmented(a) IN
             [stored EXCEPT
                 !.outcome = "AttributeError",
                 !.schedule = Set(s),
                 !.output_data = Set(OutputDataSegmented(a, s)),
                 !.soft_start = Set((scan_laser_id :> TRUE) @@ (repump_laser_id :> TRUE))]

\* a controller after construction: every attribute None
ConfigureInit ==
    /\ ExtQuiet
    /\ CtlInit
    /\ SeqQuiet
    /\ cg = <<>>
    /\ dg = <<>>
    /\ pr = <<>>
    /\ pd = <<>>
    /\ wm = <<>>
    /\ sg = <<>>
    /\ ct = <<>>
    /\ \E kind \in {"continuous", "segmented"} :
       \E group \in ScanLaserGroups :
       \E rate \in ClockRates :
          /\ kind = "segmented" => group = "compatible" /\ rate = 1000
          /\ cf = [kind |-> kind, group |-> group, clock_rate |-> rate,
                   args |-> Unset, outcome |-> "none",
                   params |-> Unset, sequence_settings |-> Unset, schedule |-> Unset,
                   output_data |-> Unset, soft_start |-> Unset, input_samples |-> Unset,
                   readout_delays |-> Unset, timeout |-> Unset]

\* one call of configure_sequence
ConfigureSequence ==
    /\ \E a \in ScanArgs :
          cf' = IF cf.kind = "continuous" THEN ConfigureContinuous(cf, a)
                ELSE ConfigureSegmented(cf, a)
    /\ UNCHANGED <<ctlVars, seqVars, cg, dg, pr, pd, wm, sg, ct, extVars>>

SpecConfigure == ConfigureInit /\ [][ConfigureSequence]_vars

(***************************************************************************)
(* PLE controllers: process_data                                           *)
(***************************************************************************)
\* the data streams of a call, in the order the loop meets them: an input
\* and an output
PdStreams == <<"a", "x">>

\* instructions given for a stream
Instructions == {"first", "sum", "average", "last", "median"}

\* configurations the processed data was taken with, at a clock rate of
\* 1000 Hz: pixel and subpixel counts of at least 2, so that every squeeze()
\* leaves a vector
PdArgs ==
    {[min |-> 0, max |-> 1, n_pixels_up |-> PyInt(2), n_pixels_down |-> PyInt(2),
      n_subpixels |-> PyInt(2), time_up |-> 8, time_down |-> 8, time_repump |-> 1],
     [min |-> 0, max |-> 1, n_pixels_up |-> PyInt(3), n_pixels_down |-> PyInt(2),
      n_subpixels |-> PyInt(2), time_up |-> 6, time_down |-> 8, time_repump |-> 0]}

\* an array of k samples, the j-th holding the value j
Ramp(k) == [j \in 1..k |-> Rat(j, 1)]

RECURSIVE SumNum(_)
SumNum(v) == IF v = <<>> THEN 0 ELSE Head(v)[1] + SumNum(Tail(v))

\* v.reshape(r, c) of a vector of r * c samples
Reshape(v, r, c) == [k \in 1..r |-> [j \in 1..c |-> v[(k - 1) * c + j]]]

\* rows[:,0], rows[:,-1], np.sum(rows, axis=1), np.average(rows, axis=1)
ReduceRows(instr, rows) ==
    [k \in 1..Len(rows) |->
        CASE instr = "first" -> rows[k][1]
          [] instr = "last" -> rows[k][Len(rows[k])]
          [] instr = "sum" -> Rat(SumNum(rows[k]), rows[k][1][2])
          [] instr = "average" -> Rat(SumNum(rows[k]), rows[k][1][2] * Len(rows[k]))]

PdRaise(exc, at) == [exc |-> exc, at |-> at]
PdNone == PdRaise("none", "none")

\* `(name not in instructions) or (instructions[name] == 'first')`
InstructionFor(instructions, name) ==
    IF name \notin DOMAIN instructions THEN "first" ELSE instructions[name]

\* the body of the continuous controller's loop for one stream
ContinuousStream(c, name, v, instr) ==
    LET s == c.schedule
        p == c.params
        up == Slice(v, s.n_samples_repump, s.n_samples_repump + s.n_samples_upscan)
        down == Slice(v, s.n_samples_repump, s.n_samples_repump + s.n_samples_upscan)
        r == p.n_subpixels_up.v
        cyc == s.cycles_per_subpixel_up
    IN  IF Len(up) /= r * cyc THEN [err |-> PdRaise("ValueError", "reshape"), out |-> <<>>]
        ELSE IF instr \notin {"first", "sum", "average"}
        THEN [err |-> PdRaise("ValueError", "instruction"), out |-> <<>>]
        ELSE LET sub_up == ReduceRows(instr, Reshape(up, r, cyc))
                 sub_down == ReduceRows(instr, Reshape(down, r, cyc))
                 rows_down == IF instr = "first" THEN p.n_pixels_up.v
                              ELSE p.n_pixels_down.v
             IN  IF rows_down * p.n_subpixels.v /= Len(sub_down)
                 THEN [err |-> PdRaise("ValueError", "reshape"), out |-> <<>>]
                 ELSE LET pix_up == ReduceRows(instr,
                                       Reshape(sub_up, p.n_pixels_up.v, p.n_subpixels.v))
                          pix_down == ReduceRows(instr,
                                       Reshape(sub_down, rows_down, p.n_subpixels.v))
                      IN  [err |-> PdNone,
                           out |-> (<<name, "_subpixel_up">> :> sub_up)
                                   @@ (<<name, "_subpixel_down">> :> sub_down)
                                   @@ (<<name, "_subpixel">> :> sub_up \o sub_down)
                                   @@ (<<name, "_up">> :> pix_up)
                                   @@ (<<name, "_down">> :> pix_down)
                                   @@ (<<name, "">> :> pix_up \o pix_down)]

\* PLEControllerPulsedRepumpContinuous.process_data from the j-th stream on
RECURSIVE ProcessContinuous(_, _, _, _, _)
ProcessContinuous(c, data, instructions, j, output_dict) ==
    IF j > Len(PdStreams) THEN [err |-> PdNone, out |-> output_dict]
    ELSE IF PdStreams[j] \notin DOMAIN data
    THEN ProcessContinuous(c, data, instructions, j + 1, output_dict)
    ELSE LET name == PdStreams[j]
             one == ContinuousStream(c, name, data[name],
                                     InstructionFor(instructions, name))
         IN  IF one.err /= PdNone THEN one
             ELSE ProcessContinuous(c, data, instructions, j + 1, one.out @@ output_dict)

\* the body of the segmented controller's loop for one source: an
\* instruction that is none of the four creates a ValueError without raising
\* it, and the combination that follows finds no 'upscan_' entry
SegmentedSource(c, name, data, instr) ==
    LET p == c.params
        up == data[<<"upscan_subpixel_", name>>]
        down == data[<<"downscan_subpixel_", name>>]
    IN  IF \/ Len(up) /= p.n_pixels_up.v * p.n_subpixels.v
           \/ Len(down) /= p.n_pixels_down.v * p.n_subpixels.v
        THEN [err |-> PdRaise("ValueError", "reshape"), out |-> <<>>]
        ELSE IF instr \notin {"first", "last", "sum", "average"}
        THEN [err |-> PdRaise("KeyError", "combine"), out |-> <<>>]
        ELSE LET pix_up == ReduceRows(instr,
                               Reshape(up, p.n_pixels_up.v, p.n_subpixels.v))
                 pix_down == ReduceRows(instr,
                               Reshape(down, p.n_pixels_down.v, p.n_subpixels.v))
             IN  [err |-> PdNone,
                  out |-> (<<"upscan_", name>> :> pix_up)
                          @@ (<<"downscan_", name>> :> pix_down)
                          @@ (<<"", name>> :> pix_up \o pix_down)]

RECURSIVE SegmentedLoop(_, _, _, _, _)
SegmentedLoop(c, data, instructions, j, output_dict) ==
    IF j > Len(PdStreams) THEN [err |-> PdNone, out |-> data @@ output_dict]
    ELSE LET name == PdStreams[j]
             one == SegmentedSource(c, name, data, InstructionFor(instructions, name))
         IN  IF one.err /= PdNone THEN one
             ELSE SegmentedLoop(c, data, instructions, j + 1, one.out @@ output_dict)

\* whether the up-scan sequencer object has the dictionaries
\* input_channels_group and output_channels_group that process_data reads:
\* the NidaqSequencer of this repository has not ("missing")
SequencerDicts == {"missing", "present"}

\* PLEControllerPulsedRepumpSegmented.process_data
ProcessSegmented(c, dicts, data, instructions) ==
    IF dicts = "missing"
    THEN [err |-> PdRaise("AttributeError", "source_names"), out |-> <<>>]
    ELSE SegmentedLoop(c, data, instructions, 1, <<>>)

\* the data of a call on a configured controller: for the continuous one the
\* clock-cycle samples of each stream (the scan samples, or all samples of
\* the sequence), for the segmented one a sample per subpixel
PdData(kind, c) ==
    IF kind = "continuous"
    THEN UNION {[D -> {Ramp(c.schedule.n_samples_scan), Ramp(c.schedule.n_samples_total)}] :
                    D \in {{"a"}, {"a", "x"}}}
    ELSE {[key \in {"upscan_subpixel_", "downscan_subpixel_"} \X Range(PdStreams) |->
              IF key[1] = "upscan_subpixel_" THEN Ramp(c.params.n_subpixels_up.v)
              ELSE Ramp(c.params.n_subpixels_down.v)]}

ProcessInit ==
    /\ ExtQuiet
    /\ CtlInit
    /\ SeqQuiet
    /\ cg = <<>>
    /\ dg = <<>>
    /\ pr = <<>>
    /\ cf = <<>>
    /\ wm = <<>>
    /\ sg = <<>>
    /\ ct = <<>>
    /\ \E kind \in {"continuous", "segmented"} :
       \E dicts \in SequencerDicts :
       \E a \in PdArgs :
          LET c == [params |-> ScanParams(a),
                    schedule |-> ScheduleContinuous(a, 1000)]
          IN  /\ kind = "continuous" => dicts = "present"
              /\ \E data \in PdData(kind, c) :
                 \E instructions \in Dicts(Range(PdStreams), Instructions) :
                     pd = [kind |-> kind, dicts |-> dicts, ctl |-> c, data |-> data,
                           instructions |-> instructions, pc |-> "called",
                           outcome |-> PdNone, result |-> <<>>]

\* one call of process_data
ProcessData ==
    /\ pd.pc = "called"
    /\ LET r == IF pd.kind = "continuous"
                THEN ProcessContinuous(pd.ctl, pd.data, pd.instructions, 1, <<>>)
                ELSE ProcessSegmented(pd.ctl, pd.dicts, pd.data, pd.instructions)
       IN  pd' = [pd EXCEPT !.pc = IF r.err = PdNone THEN "returned" ELSE "raised",
                            !.outcome = r.err,
                            !.result = IF r.err = PdNone THEN r.out ELSE <<>>]
    /\ UNCHANGED <<ctlVars, seqVars, cg, dg, pr, cf, wm, sg, ct, extVars>>

SpecProcess == ProcessInit /\ [][ProcessData]_vars

(***************************************************************************)
(* Segmented PLE controller with wavemeter: _run_sequence and the thread   *)
(* it starts for each scan                                                 *)
(***************************************************************************)
\* upscan_query_buffer_size / downscan_query_buffer_size
QueryBufferSizes == {1, 2}

\* the main thread's position: a segment and a place in it
At(seg, place) == [seg |-> seg, at |-> place]

WavemeterInit ==
    /\ ExtQuiet
    /\ CtlInit
    /\ SeqQuiet
    /\ cg = <<>>
    /\ dg = <<>>
    /\ pr = <<>>
    /\ cf = <<>>
    /\ pd = <<>>
    /\ sg = <<>>
    /\ ct = <<>>
    /\ \E size \in QueryBufferSizes :
          wm = [main |-> At("repump", "open"),
                thr |-> "none",
                query_wavemeter |-> FALSE,
                tags |-> <<>>,
                buffer_size |-> size,
                wavemeter |-> "closed",
                ran |-> <<>>,
                raisedIn |-> "none"]

WmQuiet == UNCHANGED <<ctlVars, seqVars, cg, dg, pr, cf, pd, sg, ct, extVars>>

\* self.wavemeter.open()
WmOpen ==
    /\ wm.main = At("repump", "open")
    /\ wm' = [wm EXCEPT !.main = At("repump", "call"), !.wavemeter = "open"]
    /\ WmQuiet

\* Thread(target=self._wavemeter_query_thread_function).start()
WmSpawn ==
    /\ wm.main.at = "spawn"
    /\ wm' = [wm EXCEPT !.main.at = "call", !.thr = "begin"]
    /\ WmQuiet

\* the segment's run_sequence is entered
WmCall ==
    /\ wm.main.at = "call"
    /\ wm' = [wm EXCEPT !.main.at = "run"]
    /\ WmQuiet

\* the segment's run_sequence returns
WmReturn ==
    /\ wm.main.at = "run"
    /\ wm' = [wm EXCEPT !.main.at = IF wm.main.seg = "repump" THEN "data" ELSE "clear",
                        !.ran = Append(@, wm.main.seg)]
    /\ WmQuiet

\* the segment's run_sequence raises: nothing in _run_sequence catches it
WmRaise ==
    /\ wm.main.at = "run"
    /\ wm' = [wm EXCEPT !.main = At(wm.main.seg, "raised"), !.raisedIn = "run_sequence"]
    /\ WmQuiet

\* self.query_wavemeter = False
WmClear ==
    /\ wm.main.at = "clear"
    /\ wm' = [wm EXCEPT !.main.at = "join", !.query_wavemeter = FALSE]
    /\ WmQuiet

\* wavemeter_thread.join() returns once the thread's function has returned
WmJoin ==
    /\ wm.main.at = "join"
    /\ wm.thr = "done"
    /\ wm' = [wm EXCEPT !.main.at = "data", !.thr = "joined"]
    /\ WmQuiet

\* get_data() of the segment; for a scan, np.pad of the thread's readings to
\* the buffer size, which raises ValueError for a negative pad width
WmData ==
    /\ wm.main.at = "data"
    /\ wm' = IF wm.main.seg = "repump" THEN [wm EXCEPT !.main = At("up", "spawn")]
             ELSE IF wm.buffer_size - Len(wm.tags) < 0
             THEN [wm EXCEPT !.main = At(wm.main.seg, "raised"), !.raisedIn = "pad"]
             ELSE IF wm.main.seg = "up" THEN [wm EXCEPT !.main = At("down", "spawn")]
             ELSE [wm EXCEPT !.main = At("down", "close")]
    /\ WmQuiet

\* self.wavemeter.close() and the return
WmClose ==
    /\ wm.main.at = "close"
    /\ wm' = [wm EXCEPT !.main = At("down", "returned"), !.wavemeter = "closed"]
    /\ WmQuiet

\* _wavemeter_query_thread_function: self.query_wavemeter = True
ThBegin ==
    /\ wm.thr = "begin"
    /\ wm' = [wm EXCEPT !.thr = "reset", !.query_wavemeter = TRUE]
    /\ WmQuiet

\* the two lists are emptied
ThReset ==
    /\ wm.thr = "reset"
    /\ wm' = [wm EXCEPT !.thr = "check", !.tags = <<>>]
    /\ WmQuiet

\* while self.query_wavemeter
ThCheck ==
    /\ wm.thr = "check"
    /\ wm' = [wm EXCEPT !.thr = IF wm.query_wavemeter THEN "read" ELSE "done"]
    /\ WmQuiet

\* one pass of the loop: a reading is appended, or readout() raised and the
\* exception was logged; then the sleep
ThRead ==
    /\ wm.thr = "read"
    /\ \/ /\ Len(wm.tags) < MaxReads
          /\ wm' = [wm EXCEPT !.thr = "check", !.tags = Append(@, "tag")]
       \/ wm' = [wm EXCEPT !.thr = "check"]
    /\ WmQuiet

WmMain == WmOpen \/ WmSpawn \/ WmCall \/ WmReturn \/ WmRaise \/ WmClear \/ WmJoin
              \/ WmData \/ WmClose
WmThread == ThBegin \/ ThReset \/ ThCheck \/ ThRead

WavemeterNext == WmMain \/ WmThread

SpecWavemeter == WavemeterInit /\ [][WavemeterNext]_vars

\* both threads are scheduled again and again
SpecWavemeterLive ==
    WavemeterInit /\ [][WavemeterNext]_vars /\ WF_vars(WmMain) /\ WF_vars(WmThread)

(***************************************************************************)
(* Sequencer: the source names the constructor registers                   *)
(***************************************************************************)
\* the dictionaries handed to the constructor: group names in insertion
\* order, and the source_names a group may have
CtInputGroups == <<"gi1", "gi2">>
CtOutputGroups == <<"go1", "go2">>
CtInputLists == {<<"a">>, <<"b">>, <<"a", "b">>}
CtOutputLists == {<<"a">>, <<"x">>, <<"x", "y">>}

\* the dictionaries over the first groups of a list
CtDicts(groups, lists) ==
    UNION {[{groups[j] : j \in 1..k} -> lists] : k \in 0..Len(groups)}

\* the sources of the groups of a dictionary, group after group, each with
\* its group
RECURSIVE CtPairs(_, _, _)
CtPairs(groups, dict, j) ==
    IF j > Len(groups) THEN <<>>
    ELSE IF groups[j] \notin DOMAIN dict THEN CtPairs(groups, dict, j + 1)
    ELSE [k \in 1..Len(dict[groups[j]]) |-> <<dict[groups[j]][k], groups[j]>>]
         \o CtPairs(groups, dict, j + 1)

\* one of the constructor's two loops from the j-th source on: a source that
\* is already a key of the dictionary being filled raises ValueError
RECURSIVE Register(_, _, _)
Register(pairs, j, source_group) ==
    IF j > Len(pairs) THEN [err |-> "none", map |-> source_group]
    ELSE IF pairs[j][1] \in DOMAIN source_group THEN [err |-> "ValueError", map |-> source_group]
    ELSE Register(pairs, j + 1, source_group @@ (pairs[j][1] :> pairs[j][2]))

\* NidaqSequencer.__init__ on the two dictionaries; attrs are the attributes
\* of the output group objects
SequencerInit(inputs, outputs, attrs) ==
    IF outputs /= <<>> /\ "source_names" \notin attrs
    THEN [err |-> "AttributeError", input_source_group |-> <<>>, output_source_group |-> <<>>]
    ELSE LET ins == Register(CtPairs(CtInputGroups, inputs, 1), 1, <<>>)
             outs == Register(CtPairs(CtOutputGroups, outputs, 1), 1, <<>>)
         IN  IF ins.err /= "none"
             THEN [err |-> ins.err, input_source_group |-> <<>>, output_source_group |-> <<>>]
             ELSE IF outs.err /= "none"
             THEN [err |-> outs.err, input_source_group |-> <<>>, output_source_group |-> <<>>]
             ELSE [err |-> "none", input_source_group |-> ins.map, output_source_group |-> outs.map]

\* the groups whose data get_data(names=[name]) can return for a name: the
\* input dictionary is asked first, the output dictionary on KeyError
Resolves(seqr, name) ==
    IF name \in DOMAIN seqr.input_source_group THEN {seqr.input_source_group[name]}
    ELSE IF name \in DOMAIN seqr.output_source_group THEN {seqr.output_source_group[name]}
    ELSE {}

ConstructInit ==
    /\ ExtQuiet
    /\ CtlInit
    /\ SeqQuiet
    /\ cg = <<>>
    /\ dg = <<>>
    /\ pr = <<>>
    /\ cf = <<>>
    /\ pd = <<>>
    /\ wm = <<>>
    /\ sg = <<>>
    /\ \E inputs \in CtDicts(CtInputGroups, CtInputLists) :
       \E outputs \in CtDicts(CtOutputGroups, CtOutputLists) :
       \E attrs \in OutputGroupAttributes :
          ct = [pc |-> "new", inputs |-> inputs, outputs |-> outputs, attrs |-> attrs,
                seqr |-> <<>>]

\* NidaqSequencer(inputs, outputs, ...)
Construct ==
    /\ ct.pc = "new"
    /\ LET r == SequencerInit(ct.inputs, ct.outputs, ct.attrs)
       IN  ct' = [ct EXCEPT !.pc = IF r.err = "none" THEN "constructed" ELSE "raised",
                            !.seqr = r]
    /\ UNCHANGED <<ctlVars, seqVars, cg, dg, pr, cf, pd, wm, sg, extVars>>

SpecConstruct == ConstructInit /\ [][Construct]_vars

(***************************************************************************)
(* Segmented PLE controller: _run_sequence over its three sequencers       *)
(***************************************************************************)
Segments == <<"repump", "up", "down">>

\* the segment run after seg
NextSegment(seg) == IF seg = "repump" THEN "up" ELSE "down"

\* repetitions a batch asks for, and the process_method it passes
SgRepetitions == {1, 2}
ProcessMethods == {"None", "returns", "raises"}

SgEvent(ev, seg) ==
    [ev |-> ev, seg |-> seg, rep |-> sg.rep,
     open |-> {s \in Range(Segments) : sg.tasks[s] = "open"}]

SegmentedRunInit ==
    /\ ExtQuiet
    /\ CtlInit
    /\ SeqQuiet
    /\ cg = <<>>
    /\ dg = <<>>
    /\ pr = <<>>
    /\ cf = <<>>
    /\ pd = <<>>
    /\ wm = <<>>
    /\ ct = <<>>
    /\ \E reps \in SgRepetitions :
       \E method \in ProcessMethods :
          sg = [main |-> At("repump", "call"),
                rep |-> 1,
                reps |-> reps,
                process_method |-> method,
                tasks |-> [s \in Range(Segments) |-> "none"],
                data |-> {},
                log |-> <<>>]

SgQuiet == UNCHANGED <<ctlVars, seqVars, cg, dg, pr, cf, pd, wm, ct, extVars>>

\* <segment>_sequencer.run_sequence(...) is entered
SgCall ==
    /\ sg.main.at = "call"
    /\ sg' = [sg EXCEPT !.main.at = "validate",
                        !.log = Append(@, SgEvent("call", sg.main.seg))]
    /\ SgQuiet

\* where _run_sequence continues when a segment's run_sequence has raised
SgAfterRaiseCarryOn(seg) == At(seg, "data")

SgAfterRaise(seg) == At(seg, "raised")

\* run_sequence rejects the request: no task was created
SgReject ==
    /\ sg.main.at = "validate"
    /\ sg' = [sg EXCEPT !.main = SgAfterRaise(sg.main.seg),
                        !.log = Append(@, SgEvent("raise", sg.main.seg))]
    /\ SgQuiet

\* run_sequence accepts the request and builds and starts its tasks
SgAccept ==
    /\ sg.main.at = "validate"
    /\ sg' = [sg EXCEPT !.main.at = "tasks", !.tasks[sg.main.seg] = "open"]
    /\ SgQuiet

\* a driver call of run_sequence raises: the groups' tasks are left open
SgFault ==
    /\ sg.main.at = "tasks"
    /\ sg' = [sg EXCEPT !.main = SgAfterRaise(sg.main.seg),
                        !.log = Append(@, SgEvent("raise", sg.main.seg))]
    /\ SgQuiet

\* run_sequence closes its tasks and returns
SgReturn ==
    /\ sg.main.at = "tasks"
    /\ sg' = [sg EXCEPT !.main.at = "data",
                        !.tasks[sg.main.seg] = "closed",
                        !.log = Append(@, [SgEvent("return", sg.main.seg)
                                              EXCEPT !.open = @ \ {sg.main.seg}])]
    /\ SgQuiet

\* <segment>_sequencer.get_data() under the segment's prefix
SgGetData ==
    /\ sg.main.at = "data"
    /\ sg' = [sg EXCEPT !.data = @ \cup {sg.main.seg},
                        !.main = IF sg.main.seg = "down" THEN At("down", "process")
                                 ELSE At(NextSegment(sg.main.seg), "call")]
    /\ SgQuiet

\* the combined data is returned, or handed to process_method; then the
\* batch's next repetition begins
SgProcess ==
    /\ sg.main.at = "process"
    /\ sg' = IF sg.process_method = "raises" THEN [sg EXCEPT !.main.at = "raised"]
             ELSE IF sg.rep < sg.reps
             THEN [sg EXCEPT !.main = At("repump", "call"), !.rep = @ + 1, !.data = {}]
             ELSE [sg EXCEPT !.main.at = "returned"]
    /\ SgQuiet

SegmentedRunNext ==
    SgCall \/ SgReject \/ SgAccept \/ SgFault \/ SgReturn \/ SgGetData \/ SgProcess

SpecSegmented == SegmentedRunInit /\ [][SegmentedRunNext]_vars

(***************************************************************************)
(* Segmented PLE controller: set_output                                    *)
(***************************************************************************)
\* output names of a call: the repump laser (an output of the repump
\* sequencer), the scan laser (an output of the scan sequencers), and a name
\* neither sequencer has
SsOutputIds == {repump_laser_id, scan_laser_id, "z"}
RepumpOutputs == {repump_laser_id}
ScanOutputs == {scan_laser_id}

\* what the driver does with the write of a set point
SsDrivers == {"writes", "fails"}

\* NidaqSequencer.set_output on a sequencer with the outputs `known`:
\* the lookup of the name, the group's range check, the driver's write
SequencerSetOutput(known, output_name, setpoint, driver) ==
    IF output_name \notin known THEN "KeyError"
    ELSE IF ~InRange(<<setpoint>>) THEN "ValueError"
    ELSE IF driver = "fails" THEN "DaqError"
    ELSE "ok"

\* the set points the driver has put on the outputs, after an attempt
SsWrite(written, outcome, output_name, setpoint) ==
    IF outcome = "ok" THEN Append(written, <<output_name, setpoint>>) ELSE written

\* self.busy when the try statement of set_output was left with `outcome`,
\* if the call was made with self.busy = b: the finally clause clears it
AfterTryBaseClass(b, outcome) == outcome /= "ok"
AfterTry(b, outcome) == FALSE

SetOutputInit ==
    /\ CtlInit
    /\ SeqQuiet
    /\ cg = <<>>
    /\ dg = <<>>
    /\ pr = <<>>
    /\ cf = <<>>
    /\ pd = <<>>
    /\ wm = <<>>
    /\ sg = <<>>
    /\ ct = <<>>
    /\ sb = <<>>
    /\ rs = <<>>
    /\ ga = <<>>
    /\ \E b \in BOOLEAN :
          ss = [busy |-> b, pc |-> "idle", calls |-> 0, entry |-> FALSE,
                written |-> <<>>,
                output_id |-> "", setpoint |-> 0, via |-> "none",
                pending |-> "none", res |-> "none"]

SsQuiet == UNCHANGED <<ctlVars, seqVars, cg, dg, pr, cf, pd, wm, sg, ct, sb, rs, ga>>

\* the call and `if self.busy: raise RuntimeError`
SsCall ==
    /\ ss.pc = "idle"
    /\ ss.calls < MaxOps
    /\ \E output_id \in SsOutputIds : \E setpoint \in DataValues :
          ss' = [ss EXCEPT !.calls = @ + 1,
                           !.entry = ss.busy,
                           !.output_id = output_id,
                           !.setpoint = setpoint,
                           !.via = "none",
                           !.pending = "none",
                           !.res = IF ss.busy THEN "RuntimeError" ELSE "none",
                           !.pc = IF ss.busy THEN "idle" ELSE "reserve"]
    /\ SsQuiet

\* self.busy = True
SsReserve ==
    /\ ss.pc = "reserve"
    /\ ss' = [ss EXCEPT !.busy = TRUE, !.pc = "repump"]
    /\ SsQuiet

\* self.repump_sequencer.set_output(...): a KeyError leads to the second
\* attempt, any other exception to the finally clause
SsRepump ==
    /\ ss.pc = "repump"
    /\ \E driver \in SsDrivers :
          LET r == SequencerSetOutput(RepumpOutputs, ss.output_id, ss.setpoint, driver)
          IN  ss' = [ss EXCEPT !.via = "repump",
                               !.written = SsWrite(@, r, ss.output_id, ss.setpoint),
                               !.pending = IF r = "KeyError" THEN "none" ELSE r,
                               !.pc = IF r = "KeyError" THEN "upscan" ELSE "finally"]
    /\ SsQuiet

\* self.upscan_sequencer.set_output(...) inside `except KeyError`
SsUpscan ==
    /\ ss.pc = "upscan"
    /\ \E driver \in SsDrivers :
          LET r == SequencerSetOutput(ScanOutputs, ss.output_id, ss.setpoint, driver)
          IN  ss' = [ss EXCEPT !.via = "upscan",
                               !.written = SsWrite(@, r, ss.output_id, ss.setpoint),
                               !.pending = r,
                               !.pc = "finally"]
    /\ SsQuiet

\* the finally clause, then the return or the exception leaves the call
SsFinally ==
    /\ ss.pc = "finally"
    /\ ss' = [ss EXCEPT !.busy = AfterTry(ss.entry, ss.pending),
                        !.res = ss.pending,
                        !.pc = "idle"]
    /\ SsQuiet

SetOutputNext == SsCall \/ SsReserve \/ SsRepump \/ SsUpscan \/ SsFinally

SpecSetOutput == SetOutputInit /\ [][SetOutputNext]_vars

(***************************************************************************)
(* SimpleStateMonitoringExperiment.stabilize                               *)
(***************************************************************************)
\* hold_window arguments of a call
HoldWindows == {1, 2}

\* max_attempts arguments of a call
AttemptLimits == 1..MaxAttempts

\* probe_target - reading of a successful readout, with tol = 1: 0 lies
\* within the tolerance, 2 and -2 outside
ReadErrors == {-2, 0, 2}

\* abs(e) < tol
WithinTol(e, tol) == -tol < e /\ e < tol

\* errors[-hold_window:]
LastErrors(errors, hold_window) ==
    IF Len(errors) <= hold_window THEN errors
    ELSE SubSeq(errors, Len(errors) - hold_window + 1, Len(errors))

\* `i > hold_window and all(abs(e) < tol for e in errors[-hold_window:])`
Converged(k, errors, hold_window, tol) ==
    /\ k > hold_window
    /\ \A j \in 1..Len(LastErrors(errors, hold_window)) :
          WithinTol(LastErrors(errors, hold_window)[j], tol)

StabilizeInit ==
    /\ CtlInit
    /\ SeqQuiet
    /\ cg = <<>>
    /\ dg = <<>>
    /\ pr = <<>>
    /\ cf = <<>>
    /\ pd = <<>>
    /\ wm = <<>>
    /\ sg = <<>>
    /\ ct = <<>>
    /\ ss = <<>>
    /\ rs = <<>>
    /\ ga = <<>>
    /\ \E hold_window \in HoldWindows : \E max_attempts \in AttemptLimits :
          sb = [pc |-> "called", tol |-> 1, hold_window |-> hold_window,
                max_attempts |-> max_attempts, i |-> 0, errors |-> <<>>,
                attempts |-> <<>>, wavemeter |-> "closed", busy |-> FALSE,
                adjusted |-> 0]

SbQuiet == UNCHANGED <<ctlVars, seqVars, cg, dg, pr, cf, pd, wm, sg, ct, ss, rs, ga>>

\* self.wavemeter_controller.open(); errors = []
SbOpen ==
    /\ sb.pc = "called"
    /\ sb' = [sb EXCEPT !.pc = "loop", !.wavemeter = "open"]
    /\ SbQuiet

\* one pass of `for i in range(max_attempts)` whose readout raises: the
\* except clause prints the error and sleeps
SbReadFails ==
    /\ sb.pc = "loop"
    /\ sb.i < sb.max_attempts
    /\ sb' = [sb EXCEPT !.i = @ + 1, !.attempts = Append(@, "failed")]
    /\ SbQuiet

\* one pass whose readout returns: the error is appended; on the success
\* condition the wavemeter is closed and the call returns; otherwise the
\* voltage is adjusted through set_output of the base class, which raises
\* when the controller is busy or the write fails and then leaves busy set
SbRead ==
    /\ sb.pc = "loop"
    /\ sb.i < sb.max_attempts
    /\ \E error \in ReadErrors : \E driver \in {"writes", "fails"} :
          LET errors == Append(sb.errors, error)
              within == IF WithinTol(error, sb.tol) THEN "within" ELSE "outside"
          IN  IF Converged(sb.i, errors, sb.hold_window, sb.tol)
              THEN sb' = [sb EXCEPT !.errors = errors,
                                    !.attempts = Append(@, within),
                                    !.wavemeter = "closed",
                                    !.pc = "returned"]
              ELSE sb' = [sb EXCEPT !.errors = errors,
                                    !.attempts = Append(@, within),
                                    !.i = @ + 1,
                                    !.busy = @ \/ driver = "fails",
                                    !.adjusted = IF sb.busy \/ driver = "fails"
                                                 THEN @ ELSE @ + 1]
    /\ SbQuiet

\* the loop is exhausted: close the wavemeter, raise RuntimeError
SbGiveUp ==
    /\ sb.pc = "loop"
    /\ sb.i = sb.max_attempts
    /\ sb' = [sb EXCEPT !.wavemeter = "closed", !.pc = "raised"]
    /\ SbQuiet

StabilizeNext == SbOpen \/ SbReadFails \/ SbRead \/ SbGiveUp

SpecStabilize == StabilizeInit /\ [][StabilizeNext]_vars

(***************************************************************************)
(* A sequencer that is run several times and then asked for its data       *)
(***************************************************************************)
\* what the driver or the binding of a call does at one step of run_sequence
RsOutcomes == {"ok", "fail"}

\* group.data of every group: the number of the run_sequence call that
\* stored it, 0 while it is None
RsNoData == [g \in Groups |-> 0]

\* where run_sequence continues after the j-th group of a loop
RsAfter(names, j, same, next) == IF j < Len(names) THEN <<same, j + 1>> ELSE <<next, 1>>

RerunInit ==
    /\ CtlInit
    /\ SeqQuiet
    /\ cg = <<>>
    /\ dg = <<>>
    /\ pr = <<>>
    /\ cf = <<>>
    /\ pd = <<>>
    /\ wm = <<>>
    /\ sg = <<>>
    /\ ct = <<>>
    /\ ss = <<>>
    /\ sb = <<>>
    /\ ga = <<>>
    /\ rs = [pc |-> "idle", idx |-> 0, calls |-> 0, data |-> RsNoData,
             ended |-> <<>>, got |-> <<>>]

RsQuiet == UNCHANGED <<ctlVars, seqVars, cg, dg, pr, cf, pd, wm, sg, ct, ss, sb, ga>>

\* the exception leaves run_sequence
RsRaise(at) == [rs EXCEPT !.pc = "idle", !.idx = 0, !.ended = Append(@, at)]

\* the call: validation, soft starts and the clock task (lines 111-136)
RsCall ==
    /\ rs.pc = "idle"
    /\ rs.calls < MaxOps
    /\ \E o \in RsOutcomes :
          LET c == [rs EXCEPT !.calls = @ + 1, !.got = <<>>]
          IN  rs' = IF o = "fail" THEN [c EXCEPT !.ended = Append(@, "validation")]
                    ELSE [c EXCEPT !.pc = "inputs", !.idx = 1]
    /\ RsQuiet

\* lines 139-149: build and start of one input group
RsInput ==
    /\ rs.pc = "inputs"
    /\ \E o \in RsOutcomes :
          rs' = IF o = "fail" THEN RsRaise("inputs")
                ELSE [rs EXCEPT !.pc = RsAfter(InputGroupNames, rs.idx, "inputs", "outputs")[1],
                                !.idx = RsAfter(InputGroupNames, rs.idx, "inputs", "outputs")[2]]
    /\ RsQuiet

\* lines 151-158: build of one output group, which stores the data of this
\* call before it creates its task, and the start of the task
RsOutput ==
    /\ rs.pc = "outputs"
    /\ \E o \in RsOutcomes :
          LET g == OutputGroupNames[rs.idx]
              built == [rs EXCEPT !.data[g] = rs.calls]
          IN  rs' = IF o = "fail" THEN [built EXCEPT !.pc = "idle", !.idx = 0,
                                                       !.ended = Append(@, "outputs")]
                    ELSE [built EXCEPT
                             !.pc = RsAfter(OutputGroupNames, rs.idx, "outputs", "clock")[1],
                             !.idx = RsAfter(OutputGroupNames, rs.idx, "outputs", "clock")[2]]
    /\ RsQuiet

\* lines 161-167: the clock is started and every task is waited for
RsClock ==
    /\ rs.pc = "clock"
    /\ \E o \in RsOutcomes :
          rs' = IF o = "fail" THEN RsRaise("clock")
                ELSE [rs EXCEPT !.pc = "readout", !.idx = 1]
    /\ RsQuiet

\* lines 170-171: readout of one input group, which stores what it read
RsReadout ==
    /\ rs.pc = "readout"
    /\ \E o \in RsOutcomes :
          LET g == InputGroupNames[rs.idx]
          IN  rs' = IF o = "fail" THEN RsRaise("readout")
                    ELSE [rs EXCEPT
                             !.data[g] = rs.calls,
                             !.pc = RsAfter(InputGroupNames, rs.idx, "readout", "close")[1],
                             !.idx = RsAfter(InputGroupNames, rs.idx, "readout", "close")[2]]
    /\ RsQuiet

\* lines 174-177: the tasks are closed and run_sequence returns
RsClose ==
    /\ rs.pc = "close"
    /\ \E o \in RsOutcomes :
          rs' = IF o = "fail" THEN RsRaise("close")
                ELSE [rs EXCEPT !.pc = "idle", !.idx = 0, !.ended = Append(@, "returned")]
    /\ RsQuiet

\* get_data() between two calls: `data |= group.data` over all groups
RsGetData ==
    /\ rs.pc = "idle"
    /\ rs.calls > 0
    /\ rs.got = <<>>
    /\ rs' = [rs EXCEPT !.got = IF \E g \in Groups : rs.data[g] = 0
                                THEN [err |-> "TypeError", out |-> <<>>]
                                ELSE [err |-> "none", out |-> rs.data]]
    /\ RsQuiet

RerunNext ==
    RsCall \/ RsInput \/ RsOutput \/ RsClock \/ RsReadout \/ RsClose \/ RsGetData

SpecRerun == RerunInit /\ [][RerunNext]_vars

(***************************************************************************)
(* The PLE application: start_scan on the GUI thread, scan threads         *)
(***************************************************************************)
\* n_scans of a scan launched from the GUI
GaScans == {1, 2}

\* what _read_gui and the validation of configure_sequence make of the
\* entries of the GUI
GaEntries == {"valid", "invalid"}

\* the scan thread of a new ScanApplication
GaThread(scan, n_scans) ==
    [scan |-> scan, n |-> n_scans, pc |-> "spawned", i |-> 0, start |-> <<>>,
     used |-> <<>>, res |-> "none"]

\* the sequence parameters _run_sequence hands to the sequencer: the
\* controller's attributes at the time of the call, named after the scan
\* whose configure_sequence wrote them
GaParams(c) == <<c.output_data, c.input_samples>>

AppInit ==
    /\ CtlInit
    /\ SeqQuiet
    /\ cg = <<>>
    /\ dg = <<>>
    /\ pr = <<>>
    /\ cf = <<>>
    /\ pd = <<>>
    /\ wm = <<>>
    /\ sg = <<>>
    /\ ct = <<>>
    /\ ss = <<>>
    /\ sb = <<>>
    /\ rs = <<>>
    /\ ga = [busy |-> FALSE, output_data |-> 0, input_samples |-> 0,
             gui |-> "idle", number_scans |-> 0, refused |-> 0, threads |-> <<>>]

GaQuiet == UNCHANGED <<ctlVars, seqVars, cg, dg, pr, cf, pd, wm, sg, ct, ss, sb, rs>>

\* LauncherApplication.start_scan: `if self.application_controller.busy:
\* return`, then the entries of the GUI are read
GaStartScan ==
    /\ ga.gui = "idle"
    /\ ga.number_scans + ga.refused < MaxOps
    /\ \E entries \in GaEntries :
          ga' = IF ga.busy \/ entries = "invalid"
                THEN [ga EXCEPT !.refused = @ + 1]
                ELSE [ga EXCEPT !.number_scans = @ + 1, !.gui = "configure"]
    /\ GaQuiet

\* ScanApplication.__init__: configure_sequence, which has no busy check;
\* it raises on entries it rejects, and otherwise writes the output data
GaConfigureOutputs ==
    /\ ga.gui = "configure"
    /\ \E entries \in GaEntries :
          ga' = IF entries = "invalid" THEN [ga EXCEPT !.gui = "idle"]
                ELSE [ga EXCEPT !.output_data = ga.number_scans, !.gui = "inputs"]
    /\ GaQuiet

\* configure_sequence goes on to input_samples, readout_delays and timeout
GaConfigureInputs ==
    /\ ga.gui = "inputs"
    /\ ga' = [ga EXCEPT !.input_samples = ga.number_scans, !.gui = "spawn"]
    /\ GaQuiet

\* self.scan_thread = Thread(...); self.scan_thread.start()
GaSpawn ==
    /\ ga.gui = "spawn"
    /\ \E n_scans \in GaScans :
          ga' = [ga EXCEPT !.threads = Append(@, GaThread(ga.number_scans, n_scans)),
                           !.gui = "idle"]
    /\ GaQuiet

\* scan thread k reaches `if self.busy: raise` of run_n_sequences; the
\* exception is caught and logged by scan_thread_function
TaCheck(k) ==
    /\ ga.threads[k].pc = "spawned"
    /\ ga' = IF ga.busy
             THEN [ga EXCEPT !.threads[k].pc = "ended", !.threads[k].res = "busy_error"]
             ELSE [ga EXCEPT !.threads[k].pc = "reserve"]
    /\ GaQuiet

\* self.busy = True
TaReserve(k) ==
    /\ ga.threads[k].pc = "reserve"
    /\ ga' = [ga EXCEPT !.busy = TRUE, !.threads[k].pc = "loop",
                        !.threads[k].start = GaParams(ga)]
    /\ GaQuiet

\* one repetition: _run_sequence reads the controller's attributes
TaRun(k) ==
    /\ ga.threads[k].pc = "loop"
    /\ ga.threads[k].i < ga.threads[k].n
    /\ ga' = [ga EXCEPT !.threads[k].i = @ + 1,
                        !.threads[k].used = Append(@, GaParams(ga))]
    /\ GaQuiet

\* the loop is exhausted: self.busy = False; self.stop = False
TaRelease(k) ==
    /\ ga.threads[k].pc = "loop"
    /\ ga.threads[k].i = ga.threads[k].n
    /\ ga' = [ga EXCEPT !.busy = FALSE, !.threads[k].pc = "ended",
                        !.threads[k].res = "done"]
    /\ GaQuiet

AppNext ==
    \/ GaStartScan
    \/ GaConfigureOutputs
    \/ GaConfigureInputs
    \/ GaSpawn
    \/ \E k \in 1..MaxOps : k <= Len(ga.threads) /\ TaCheck(k)
    \/ \E k \in 1..MaxOps : k <= Len(ga.threads) /\ TaReserve(k)
    \/ \E k \in 1..MaxOps : k <= Len(ga.threads) /\ TaRun(k)
    \/ \E k \in 1..MaxOps : k <= Len(ga.threads) /\ TaRelease(k)

SpecApp == AppInit /\ [][AppNext]_vars

(***************************************************************************)
(* Properties of the controller                                            *)
(***************************************************************************)
IsBatch(t) == op[t] = "run_n_sequences"

\* C3: a run_n_sequences that reaches its busy check while busy is true ends
\* at once with the busy error: it has run no sequence and yielded nothing,
\* busy and stop keep their values, and the rejected request is over -- it
\* is not kept to run later.
C3_BusyRejected ==
    [][\A t \in Threads :
         /\ (pc[t] = "rn_check" /\ busy /\ pc'[t] /= "rn_check")
              => /\ pc'[t] = "ended"
                 /\ res'[t] = "busy_error"
                 /\ runs'[t] = 0
                 /\ yielded'[t] = <<>>
                 /\ busy' = busy
                 /\ stop' = stop
         /\ (IsBatch(t) /\ res[t] = "busy_error")
              => /\ pc'[t] \in {"ended", "idle"}
                 /\ runs'[t] = 0
      ]_vars

C3_Witness ==
    \E t \in Threads : IsBatch(t) /\ pc[t] = "ended" /\ res[t] = "busy_error" /\ busy

\* C4 (as claimed): once a batch has ended -- exhausted, stopped early, or by
\* an exception of a repetition -- busy and stop are both false.
C4_FlagsClearedOnEveryExit ==
    \A t \in Threads :
        (IsBatch(t) /\ pc[t] = "ended" /\ res[t] \in {"done", "raised"})
            => (~busy /\ ~stop)

\* C5 (as claimed): at most one protected operation is past its busy check.
C5_AtMostOneInside ==
    Cardinality({t \in Threads : pc[t] \in PastCheck}) <= 1

\* C6: a batch of n that was started on an idle controller with stop false,
\* during which stop was never set and no repetition raised, has run exactly
\* n sequences and yielded results 1..n in that order when it is exhausted,
\* and busy is false then; before that it never ran more than n.
C6_ExactlyN ==
    \A t \in Threads :
        (IsBatch(t) /\ ~stopAtStart[t] /\ stopAt[t] = -1 /\ pc[t] \in RnInside \cup {"ended"})
            => /\ runs[t] <= n[t]
               /\ (pc[t] = "ended" /\ res[t] = "done")
                    => /\ runs[t] = n[t]
                       /\ yielded[t] = [k \in 1..n[t] |-> k]
                       /\ ~busy

C6_Witness ==
    \E t \in Threads :
        /\ IsBatch(t) /\ pc[t] = "ended" /\ res[t] = "done"
        /\ ~stopAtStart[t] /\ stopAt[t] = -1
        /\ n[t] = MaxN /\ Len(yielded[t]) = MaxN

\* C7: when stop is set after the k-th yield, 1 <= k < n, the batch runs no
\* further sequence and yields k results in total, and when it has exited
\* stop and busy are both false.
C7_StopAfterK ==
    \A t \in Threads :
        (IsBatch(t) /\ ~stopAtStart[t] /\ 1 <= stopAt[t] /\ stopAt[t] < n[t])
            => /\ runs[t] = stopAt[t]
               /\ yielded[t] = [k \in 1..stopAt[t] |-> k]
               /\ pc[t] = "ended" => (res[t] = "done" /\ ~stop /\ ~busy)

C7_Witness ==
    \E t \in Threads :
        /\ IsBatch(t) /\ pc[t] = "ended" /\ res[t] = "done"
        /\ stopAt[t] = 1 /\ n[t] = MaxN /\ Len(yielded[t]) = 1

\* C8 (as claimed): a set_output that was accepted on an idle controller
\* leaves busy false, whether the write succeeded or raised.
C8_SetOutputReleases ==
    \A t \in Threads :
        (op[t] = "set_output" /\ pc[t] = "ended" /\ res[t] \in {"done", "raised"})
            => ~busy

\* C36: the stop flag is looked at only after a repetition's result has been
\* yielded and taken, never before the first repetition: a batch of n >= 1
\* that was started with stop already true runs one whole sequence, yields
\* its result, runs no second one, and exits with stop and busy cleared
C36_StopSampledAfterYield ==
    \A t \in Threads :
        /\ (IsBatch(t) /\ pc[t] = "rn_stopchk")
              => /\ runs[t] >= 1
                 /\ Len(yielded[t]) = runs[t]
        /\ (IsBatch(t) /\ stopAtStart[t] /\ n[t] >= 1 /\ pc[t] \in RnInside \cup {"ended"})
              => /\ runs[t] <= 1
                 /\ pc[t] = "rn_stopchk" => stop
                 /\ (pc[t] = "ended" /\ res[t] = "done")
                       => /\ runs[t] = 1
                          /\ yielded[t] = <<1>>
                          /\ ~stop
                          /\ ~busy

\* a batch of MaxN started with stop true that has ended after one result
C36_Witness ==
    \E t \in Threads :
        /\ IsBatch(t) /\ pc[t] = "ended" /\ res[t] = "done"
        /\ stopAtStart[t]
        /\ n[t] = MaxN
        /\ yielded[t] = <<1>>

\* the only operations so far were batches, and each has run to its end
\* and released the controller
BatchesReleased ==
    \A t \in Threads :
        \/ pc[t] = "idle" /\ ops[t] = 0
        \/ pc[t] = "ended" /\ ops[t] = 1 /\ IsBatch(t) /\ res[t] = "done"

\* C39: a stop request made through stop_scan, which sets stop only after
\* it has seen busy true, affects only the batch in progress: once the GUI
\* thread has left stop_scan and the scan thread has released the
\* controller, stop is false, however the two were interleaved
C39_NoStaleStopRequest ==
    (gui = "idle" /\ BatchesReleased) => ~stop

(***************************************************************************)
(* Properties of the sequencer                                             *)
(***************************************************************************)
CountEv(e, w) == Cardinality({p \in 1..Len(log) : log[p].ev = e /\ log[p].who = w})

Exited == sq_pc \in {"returned", "raised"}

\* C1: the clock task is started last.  Wherever the log of a run holds the
\* start of the clock task, every input group and every output group has
\* been started before it and no task is started after it.
C1_ClockStartedLast ==
    \A p \in 1..Len(log) :
        (log[p].ev = "start" /\ log[p].who = "clock")
            => /\ \A g \in Groups :
                    \E q \in 1..(p - 1) : log[q].ev = "start" /\ log[q].who = g
               /\ \A q \in (p + 1)..Len(log) : log[q].ev /= "start"

C1_Witness ==
    /\ sq_pc = "returned"
    /\ CountEv("start", "clock") = 1
    /\ \A g \in Groups : CountEv("start", g) = 1

\* C2 (as claimed): when run_sequence has exited, by return or by an
\* exception, every group whose build() ran in the call has had close()
\* called exactly once.
C2_BuiltGroupsClosedOnExit ==
    Exited => \A g \in Groups : CountEv("build", g) >= 1 => CountEv("close", g) = 1

\* the request as the caller made it fails one of the validation rules
RequestInvalid ==
    \/ \E s \in OutputNames : s \notin DOMAIN output_data
    \/ \E s \in OutputNames \cap DOMAIN output_data :
          \E j \in 1..Len(output_data[s]) : output_data[s][j] \notin AoMin..AoMax
    \/ \E g \in Range(OutputGroupNames) :
          \E s1, s2 \in Range(SourceNames[g]) \cap DOMAIN output_data :
             Len(output_data[s1]) /= Len(output_data[s2])
    \/ \E s \in InputNames : s \notin DOMAIN input_samples
    \/ \E s \in InputNames \cap DOMAIN input_samples : input_samples[s] < 0
    \/ \E s \in InputNames \cap DOMAIN rd_given : rd_given[s] < 0

\* C9: a request that fails validation is rejected with the validation
\* error before anything touches the hardware: no soft-start write was made,
\* no clock task and no group task was created.
C9_InvalidRequestTouchesNothing ==
    RequestInvalid
        => /\ log = <<>>
           /\ clock = "none"
           /\ \A g \in Groups : task[g] = "none" /\ ~hasData[g]
           /\ sq_pc \in {"none", "idle", "ctor_raised", "raised"}
           /\ sq_pc = "raised" => (err = "ValueError" /\ errAt = "idle")

C9_Witness ==
    /\ sq_pc = "raised"
    /\ err = "ValueError"
    /\ \E s \in DOMAIN rd_given : rd_given[s] < 0
    /\ "x" \in DOMAIN soft_start /\ soft_start["x"]
    /\ log = <<>>
    /\ got = <<>>

\* the request is valid in the sense of the claim
RequestValid == ~RequestInvalid

\* a driver call failed during the run
DriverFault == err \in {"DaqError", "Timeout"}

\* get_data() holds one entry per registered channel, of the declared length
DataComplete ==
    /\ ~GetDataFails
    /\ DOMAIN GetData = InputNames \cup OutputNames
    /\ \A s \in InputNames : Len(GetData[s]) = input_samples[s]
    /\ \A s \in OutputNames : Len(GetData[s]) = Len(output_data[s])

\* C10 (as claimed): on a sequencer built by SequenceControllerBase a valid
\* request runs to completion unless the driver fails, and get_data() then
\* holds one entry of the declared length per registered channel.
C10_ValidRequestCompletes ==
    (origin = "base" /\ RequestValid)
        => /\ sq_pc /= "ctor_raised"
           /\ (Exited /\ ~DriverFault) => (sq_pc = "returned" /\ DataComplete)

(***************************************************************************)
(* Properties of a batch of sequences                                      *)
(***************************************************************************)
\* position in the log of the latest entry into run_sequence, 0 if none
LastCall ==
    LET P == {p \in 1..Len(log) : log[p].ev = "call"}
    IN  IF P = {} THEN 0 ELSE Max(P)

\* the current run_sequence has made the driver call e on w
InThisRun(e, w) ==
    \E p \in (LastCall + 1)..Len(log) : log[p].ev = e /\ log[p].who = w

\* C11: sequences of one batch never overlap.  While repetition N+1 (N >= 1)
\* is inside run_sequence, every group it has not yet built anew still has
\* its task of repetition N closed, and until it creates its clock task the
\* clock task of repetition N is closed: nothing of N+1 is built or started
\* while a task of N is open.
C11_NoOverlap ==
    \A t \in Threads :
        (pc[t] = "rn_seq" /\ runs[t] >= 2)
            => /\ \A g \in Groups : ~InThisRun("build", g) => task[g] = "closed"
               /\ ~InThisRun("create", "clock") => clock = "closed"

C11_Witness ==
    /\ pc["t1"] = "rn_seq"
    /\ runs["t1"] = 2
    /\ sq_pc = "in_start"
    /\ idx = 1
    /\ InThisRun("build", InputGroupNames[1])
    /\ task[InputGroupNames[2]] = "closed"
    /\ CountEv("close", InputGroupNames[1]) = 1

(***************************************************************************)
(* Properties of the counter input groups                                  *)
(***************************************************************************)
\* C12: when the readout of an edge-counter group returns, every channel
\* holds n samples, sample i (0 <= i < n) being raw[d+i] - raw[d] in uint32
\* arithmetic, where d is the channel's delay and raw its row of the buffer;
\* so the first sample of every channel with n >= 1 is 0.
C12_EdgeCountsRelativeToDelay ==
    (cg /= <<>> /\ cg.kind = "CIEdge" /\ cg.pc = "done")
        => \A s \in Range(CounterNames) :
              LET d == cg.readout_delays[s]
                  raw == cg.buffer[s]
              IN  /\ Len(cg.data[s]) = cg.n_samples[s]
                  /\ \A k \in 0..(cg.n_samples[s] - 1) :
                        cg.data[s][k + 1] = Sub32(raw[d + k + 1], raw[d + 1])
                  /\ cg.n_samples[s] >= 1 => cg.data[s][1] = <<0, 0>>

C12_Witness ==
    /\ cg /= <<>>
    /\ cg.kind = "CIEdge"
    /\ cg.pc = "done"
    /\ cg.readout_delays["c1"] = MaxDelay
    /\ cg.n_samples["c1"] = MaxSamples
    /\ cg.buffer["c1"][1] = <<Half - 1, Half - 1>>
    /\ cg.data["c1"][MaxSamples] /= <<0, 0>>

\* C13: a rate group's task acquires max(n + d) + 1 samples, and when its
\* readout returns every channel holds exactly n rates, rate i being
\* (raw[d+i+1] - raw[d+i]) * sample_rate.
C13_RateLengthAndValue ==
    (cg /= <<>> /\ cg.kind = "CIEdgeRate" /\ cg.pc /= "new")
        => /\ cg.n_samples_in_task =
                 Max({cg.n_samples[s] + cg.readout_delays[s] : s \in Range(CounterNames)}) + 1
           /\ cg.pc /= "built" =>
                /\ cg.pc = "done"
                /\ \A s \in Range(CounterNames) :
                      LET d == cg.readout_delays[s]
                          raw == cg.buffer[s]
                      IN  /\ Len(cg.data[s]) = cg.n_samples[s]
                          /\ \A k \in 0..(cg.n_samples[s] - 1) :
                                cg.data[s][k + 1] =
                                    ToInt(Sub32(raw[d + k + 2], raw[d + k + 1])) * cg.sample_rate

C13_Witness ==
    /\ cg /= <<>>
    /\ cg.kind = "CIEdgeRate"
    /\ cg.pc = "done"
    /\ cg.sample_rate = 1000
    /\ cg.readout_delays["c1"] = MaxDelay
    /\ cg.n_samples["c1"] = MaxSamples
    /\ cg.n_samples["c2"] = 0
    /\ cg.data["c1"][1] /= cg.data["c1"][MaxSamples]

\* the uint32 counter of channel s rolled over between two samples of the
\* window the readout returns
RolledOver(s) ==
    \E j \in (cg.readout_delays[s] + 1)..(cg.readout_delays[s] + cg.n_samples[s] - 1) :
        LET a == cg.buffer[s][j]
            b == cg.buffer[s][j + 1]
        IN  b[1] < a[1] \/ (b[1] = a[1] /\ b[2] < a[2])

\* C34: counter rollover is corrected: the values an edge-counter group
\* returns equal the true number of counts since the sample at the readout
\* delay modulo 2^32 and never decrease, and the rate group's values are the
\* true counts of every interval times the sample rate, also when the
\* cumulative uint32 count wraps inside the acquisition window
C34_RolloverCorrected ==
    (cg /= <<>> /\ "counts" \in DOMAIN cg /\ cg.pc = "done") =>
        \A s \in Range(CounterNames) :
            LET d == cg.readout_delays[s]
                counted == cg.counts[s]
            IN  \A k \in 1..cg.n_samples[s] :
                    IF cg.kind = "CIEdge"
                    THEN /\ cg.data[s][k] = U32(counted[d + k] - counted[d + 1])
                         /\ k > 1 => ToInt(cg.data[s][k - 1]) <= ToInt(cg.data[s][k])
                    ELSE cg.data[s][k] = (counted[d + k + 1] - counted[d + k]) * cg.sample_rate

\* an edge-counter readout whose counter wrapped inside the window of one
\* channel while counts kept arriving, and did not wrap on the other channel
C34_Witness ==
    /\ cg /= <<>>
    /\ "counts" \in DOMAIN cg
    /\ cg.pc = "done"
    /\ cg.kind = "CIEdge"
    /\ cg.n_samples["c1"] = MaxSamples
    /\ RolledOver("c1")
    /\ cg.data["c1"][MaxSamples] /= <<0, 0>>
    /\ cg.n_samples["c2"] >= 1
    /\ ~RolledOver("c2")

(***************************************************************************)
(* Properties of the digital output group                                  *)
(***************************************************************************)
\* the streams are binary, equally long, and no two channels of the group
\* sit on the same line of the same port
DoBinary == \A s \in Range(DoNames) : \A j \in 1..Len(dg.data[s]) : dg.data[s][j] \in {0, 1}
DoEqualLength == \A s, r \in Range(DoNames) : Len(dg.data[s]) = Len(dg.data[r])
DoLinesDistinct ==
    \A s, r \in Range(DoNames) :
        (s /= r /\ dg.config[s].port = dg.config[r].port) => dg.config[s].line /= dg.config[r].line

\* C14: packing then extracting is the identity.  For 0/1 streams of one
\* length on distinct lines 0..31, bit k of every port sample is the sample
\* of the line with index k.
C14_PackExtractRoundTrip ==
    (dg /= <<>> /\ dg.pc = "built" /\ DoBinary /\ DoEqualLength /\ DoLinesDistinct)
        => \A s \in Range(DoNames) :
              /\ Len(dg.port_data[dg.config[s].port]) = Len(dg.data[s])
              /\ \A j \in 1..Len(dg.data[s]) :
                    Bit32(dg.port_data[dg.config[s].port][j], dg.config[s].line) = dg.data[s][j]

C14_Witness ==
    /\ dg /= <<>>
    /\ dg.pc = "built"
    /\ DoLinesDistinct
    /\ dg.config["p"].line = 17
    /\ dg.config["q"] = [port |-> "Dev1/port0", line |-> PortSize - 1]
    /\ dg.data["p"] = <<1>>
    /\ dg.data["q"] = <<1>>
    /\ dg.port_data["Dev1/port0"][1] = <<2^15 + 2, 0>>

\* C15 (as claimed): in every port sample of a built group, the bit of
\* every line of the port that no channel of the group is configured on
\* is 0.
C15_UnlistedLinesLow ==
    (dg /= <<>> /\ dg.pc = "built")
        => \A port \in DOMAIN dg.port_data :
              \A k \in 0..(PortSize - 1) :
                 (~\E s \in Range(DoNames) : dg.config[s].port = port /\ dg.config[s].line = k)
                    => \A j \in 1..Len(dg.port_data[port]) : Bit32(dg.port_data[port][j], k) = 0

\* C19 (as claimed): data that validation accepted (array data of a build
\* that got past validation, the setpoint of a set that got past it) holds
\* only samples that are exactly 0 or 1.
C19_OnlyBinaryAccepted ==
    dg /= <<>>
        => /\ (dg.pc = "built" \/ dg.data /= <<>>) =>
                \A s \in Range(DoNames) : \A j \in 1..Len(dg.given[s]) : dg.given[s][j] \in {0, 1}
           /\ (dg.pc = "set" \/ (dg.pc = "set_raised" /\ dg.err = "DaqError")) =>
                dg.setpoint \in {0, 1}

(***************************************************************************)
(* Properties of get_data                                                  *)
(***************************************************************************)
\* C16 (as claimed): get_data(names=L) fails with KeyError exactly when L
\* holds a name registered in no group, and otherwise returns a mapping
\* whose key set is exactly the names of L.
C16_GetDataNamesExact ==
    sq_pc = "data_read"
        => /\ (got.err = "KeyError") <=>
                (\E j \in 1..Len(got.names) : got.names[j] \notin InputNames \cup OutputNames)
           /\ got.err = "none" => DOMAIN got.out = Range(got.names)

(***************************************************************************)
(* Properties of the validation of a request                               *)
(***************************************************************************)
\* the sources of output group g that the request has data for
PrPresent(g) == Range(PrSourceNames[g]) \cap DOMAIN pr.output_data

\* C17 (as claimed): a request in which two channels of one output group
\* differ in length, or in which the data of a group is not
\* one-dimensional, is rejected with the validation error; a request whose
\* groups are complete, in range and each of one length is accepted even if
\* the groups differ in length from each other.
C17_ShapeMismatchRejected ==
    (pr /= <<>> /\ pr.pc /= "new")
        => /\ (\E g \in Range(PrGroupNames) :
                   \/ \E s1, s2 \in PrPresent(g) :
                         pr.output_data[s1].shape /= pr.output_data[s2].shape
                   \/ \E s1 \in PrPresent(g) : Len(pr.output_data[s1].shape) /= 1)
                => (pr.pc = "rejected" /\ pr.err = "ValueError")
           /\ (/\ DOMAIN pr.output_data = PrOutputNames
               /\ \A s \in PrOutputNames :
                     Len(pr.output_data[s].shape) = 1 /\ InRange(pr.output_data[s].flat)
               /\ \A g \in Range(PrGroupNames) : \A s1, s2 \in Range(PrSourceNames[g]) :
                     pr.output_data[s1].shape = pr.output_data[s2].shape)
                => pr.pc = "accepted"

\* C18: a request that omits the data of an output channel or the sample
\* count of an input channel, or gives an input channel a negative sample
\* count or a negative readout delay, is rejected by validation with the
\* validation error; in a request that passes validation every input
\* channel without a readout delay has the delay 0 and the given delays
\* are kept.
C18_IncompleteOrNegativeRejected ==
    sq_pc \notin {"none", "idle", "ctor_raised"}
        => /\ (\/ \E s \in OutputNames : s \notin DOMAIN output_data
               \/ \E s \in InputNames : s \notin DOMAIN input_samples
               \/ \E s \in InputNames \cap DOMAIN input_samples : input_samples[s] < 0
               \/ \E s \in InputNames \cap DOMAIN rd_given : rd_given[s] < 0)
                => (sq_pc = "raised" /\ err = "ValueError" /\ errAt = "idle")
           /\ ~(sq_pc = "raised" /\ errAt = "idle")
                => \A s \in InputNames :
                      /\ s \in DOMAIN readout_delays
                      /\ readout_delays[s] = IF s \in DOMAIN rd_given THEN rd_given[s] ELSE 0

C18_Witness ==
    /\ sq_pc = "raised"
    /\ errAt = "idle"
    /\ DOMAIN output_data = OutputNames
    /\ \A s \in OutputNames : InRange(output_data[s])
    /\ DOMAIN input_samples = InputNames
    /\ input_samples["a"] = MaxSamples
    /\ input_samples["c"] = -1

(***************************************************************************)
(* Properties of the soft start                                            *)
(***************************************************************************)
\* position in the log of the entry into the run_sequence that made the
\* p-th driver call, 0 if the log records no entry
CallBefore(p) ==
    LET P == {q \in 1..p : log[q].ev = "call"}
    IN  IF P = {} THEN 0 ELSE Max(P)

\* the request asks for a soft start of output s
SoftRequested(s) == s \in DOMAIN soft_start /\ soft_start[s]

\* C20: by the time run_sequence creates its clock task, every output
\* channel whose soft_start flag is true has been written once, out of
\* sequence, with the first sample of its data, and no other channel has
\* been written; such a write is never preceded, in its run_sequence, by
\* the creation, build or start of a task, and none is made before
\* validation has passed.
C20_SoftStartBeforeBuild ==
    /\ \A p \in 1..Len(log) :
          (log[p].ev = "create" /\ log[p].who = "clock")
              => \A s \in OutputNames :
                    LET W == {q \in (CallBefore(p) + 1)..(p - 1) :
                                  log[q].ev = "set" /\ log[q].who = s}
                    IN  IF SoftRequested(s)
                        THEN Cardinality(W) = 1 /\ \A q \in W : log[q].val = output_data[s][1]
                        ELSE W = {}
    /\ \A q \in 1..Len(log) :
          log[q].ev = "set"
              => /\ log[q].who \in OutputNames
                 /\ \A r \in (CallBefore(q) + 1)..(q - 1) : log[r].ev = "set"
    /\ (sq_pc = "idle" \/ (sq_pc = "raised" /\ errAt = "idle")) => LastCall = Len(log)

C20_Witness ==
    /\ sq_pc = "in_build"
    /\ runs["t1"] = 2
    /\ soft_start = [x |-> TRUE, c |-> TRUE]
    /\ log[Len(log)] = Event("create", "clock", 0)
    /\ log[Len(log) - 1] = Event("set", "x", 1)
    /\ log[Len(log) - 2] = Event("call", "t1", 2)

(***************************************************************************)
(* Properties of configure_sequence                                        *)
(***************************************************************************)
Abs(v) == IF v < 0 THEN -v ELSE v

\* c is the quotient num/den rounded to the nearest integer, a tie to even
IsRounded(c, num, den) ==
    LET dist == Abs(c * den - num) IN
    2 * dist < den \/ (2 * dist = den /\ c % 2 = 0)

Configured == cf /= <<>> /\ cf.kind = "continuous" /\ cf.outcome = "ok"

\* C21: after configure_sequence of the continuous controller has completed,
\* the cycles per subpixel of each sweep are
\* round(sweep_time / (n_pixels * n_subpixels) * clock_rate) and the sweep's
\* sample count is cycles * n_pixels * n_subpixels; for the parameters
\* min=-1, max=1, 10 and 5 pixels, 2 subpixels, 1.0 s up, 0.5 s down, no
\* repump at 1000 Hz that is 50 and 50 cycles, 1000 and 500 samples, 1500 in all
C21_CyclesAndSamples ==
    Configured =>
        LET a == cf.args[1]
            s == cf.schedule[1]
            sub_up == a.n_pixels_up.v * a.n_subpixels.v
            sub_down == a.n_pixels_down.v * a.n_subpixels.v
        IN  /\ IsRounded(s.cycles_per_subpixel_up, a.time_up * cf.clock_rate, 1000 * sub_up)
            /\ IsRounded(s.cycles_per_subpixel_down, a.time_down * cf.clock_rate, 1000 * sub_down)
            /\ s.n_samples_upscan = s.cycles_per_subpixel_up * sub_up
            /\ s.n_samples_downscan = s.cycles_per_subpixel_down * sub_down
            /\ (a = ExampleArgs /\ cf.clock_rate = 1000) =>
                  /\ s.cycles_per_subpixel_up = 50
                  /\ s.cycles_per_subpixel_down = 50
                  /\ s.n_samples_upscan = 1000
                  /\ s.n_samples_downscan = 500
                  /\ s.n_samples_total = 1500

C21_Witness ==
    /\ Configured
    /\ cf.args[1] = ExampleArgs
    /\ cf.clock_rate = 1000
    /\ cf.schedule[1].n_samples_total = 1500

\* parameters the description of configure_sequence calls invalid
ArgsInvalid(a) ==
    \/ ~(a.max > a.min)
    \/ \E k \in {a.n_pixels_up, a.n_pixels_down, a.n_subpixels} : k.type /= "int" \/ k.v <= 0
    \/ a.time_up <= 0
    \/ a.time_down <= 0
    \/ a.time_repump < 0

\* everything configure_sequence assigns on the controller
ControllerState(c) ==
    <<c.params, c.sequence_settings, c.schedule, c.output_data, c.soft_start,
      c.input_samples, c.readout_delays, c.timeout>>

\* C22: a configure_sequence call with invalid parameters raises a validation
\* error and leaves the controller's stored scan parameters,
\* sequence_settings, schedule, output data, input samples, readout delays
\* and timeout as they were before the call
C22_InvalidCallChangesNothing ==
    [][ArgsInvalid(cf'.args[1]) =>
          /\ cf'.outcome = "ValueError"
          /\ ControllerState(cf') = ControllerState(cf)]_vars

\* parameters that are valid and inside the scan laser's output range
ArgsValid(a) ==
    /\ ~ArgsInvalid(a)
    /\ AoMin <= a.min /\ a.min <= AoMax
    /\ AoMin <= a.max /\ a.max <= AoMax

\* C23: after a configure_sequence call with valid parameters, input_samples
\* and readout_delays hold one entry for every input channel name registered
\* in the sequencer, all samples equal to the scan length and all delays to
\* the repump length, and the sequencer's check of the input side accepts them
C23_InputEntriesForEveryChannel ==
    (/\ cf /= <<>>
     /\ cf.args /= Unset
     /\ ArgsValid(cf.args[1])
     /\ cf.kind = "continuous" => cf.group = "compatible") =>
        /\ cf.outcome = "ok"
        /\ cf.input_samples /= Unset
        /\ cf.readout_delays /= Unset
        /\ DOMAIN cf.input_samples[1] = InputNames
        /\ DOMAIN cf.readout_delays[1] = InputNames
        /\ \A s \in InputNames :
              /\ cf.input_samples[1][s] = cf.schedule[1].n_samples_scan
              /\ cf.readout_delays[1][s] = cf.schedule[1].n_samples_repump
        /\ ParseInputs(cf.input_samples[1], cf.readout_delays[1], 1).err = "none"

\* the scan range of the last call leaves the scan laser's output bounds
RangeOutside ==
    /\ cf /= <<>>
    /\ cf.args /= Unset
    /\ \/ AoValidate(cf.args[1].min) /= "none"
       \/ AoValidate(cf.args[1].max) /= "none"

\* the last call went on to compute its waveforms
WaveformsComputed ==
    \/ cf.outcome = "ok"
    \/ cf.kind = "segmented" /\ cf.outcome = "AttributeError"

\* C35: configure_sequence of the PLE controllers rejects a scan range whose
\* min or whose max lies outside the scan laser channel's output bounds,
\* before any waveform is computed
C35_RangeEndpointsChecked ==
    RangeOutside => ~WaveformsComputed

(***************************************************************************)
(* Properties of process_data                                              *)
(***************************************************************************)
\* the reduction policies process_data documents
Recognized == {"first", "sum", "average"}

\* the streams the call processes
Processed == IF pd.kind = "continuous" THEN DOMAIN pd.data ELSE Range(PdStreams)

UnrecognizedGiven ==
    \E name \in Processed \cap DOMAIN pd.instructions :
        pd.instructions[name] \notin Recognized

\* C24: a process_data call that was given an unrecognized instruction for
\* one of its data streams fails with the invalid-instruction error and
\* returns no result, in the continuous and in the segmented controller
C24_UnrecognizedInstructionFails ==
    (pd /= <<>> /\ pd.pc /= "called" /\ UnrecognizedGiven) =>
        /\ pd.pc = "raised"
        /\ pd.outcome = PdRaise("ValueError", "instruction")

\* the samples of stream v taken while the laser swept down: the
\* n_samples_downscan samples that follow the up sweep
DownSweep(c, v) ==
    Slice(v, c.schedule.n_samples_repump + c.schedule.n_samples_upscan,
          c.schedule.n_samples_repump + c.schedule.n_samples_upscan
              + c.schedule.n_samples_downscan)

\* the stream holds the whole sequence, so that it has a complete down sweep
HoldsDownSweep(c, v) == Len(DownSweep(c, v)) = c.schedule.n_samples_downscan

\* a continuous call that returned a result for streams with a down sweep
ContinuousReturned ==
    /\ pd /= <<>>
    /\ pd.kind = "continuous"
    /\ pd.pc = "returned"
    /\ \A name \in DOMAIN pd.data : HoldsDownSweep(pd.ctl, pd.data[name])

\* C31: the continuous controller's process_data computes the down-sweep
\* aggregates from the samples of the down sweep: '_subpixel_down' has
\* n_pixels_down * n_subpixels values, each reduced from that subpixel's
\* block of cycles_per_subpixel_down samples, '_down' has n_pixels_down
\* values, and the combined per-pixel result n_pixels_up + n_pixels_down
C31_DownSweepAggregates ==
    ContinuousReturned =>
        \A name \in DOMAIN pd.data :
            LET p == pd.ctl.params
                s == pd.ctl.schedule
                instr == InstructionFor(pd.instructions, name)
                blocks == Reshape(DownSweep(pd.ctl, pd.data[name]),
                                  p.n_pixels_down.v * p.n_subpixels.v,
                                  s.cycles_per_subpixel_down)
            IN  /\ pd.result[<<name, "_subpixel_down">>] = ReduceRows(instr, blocks)
                /\ Len(pd.result[<<name, "_down">>]) = p.n_pixels_down.v
                /\ Len(pd.result[<<name, "">>]) = p.n_pixels_up.v + p.n_pixels_down.v

(***************************************************************************)
(* Properties of the wavemeter thread                                      *)
(***************************************************************************)
\* C25: whenever the main thread has come to join() the sampling thread of a
\* scan, the sampling thread eventually leaves its loop and join() returns,
\* however the two threads were interleaved before
C25_JoinReturns ==
    (wm.main.at = "join") ~> (wm.main.at /= "join")

\* C26: when a scan's run_sequence has raised out of _run_sequence, the
\* sampling thread started for that scan has been told to stop and has been
\* joined
C26_ThreadJoinedOnFailure ==
    (wm /= <<>> /\ wm.main.at = "raised" /\ wm.raisedIn = "run_sequence"
        /\ wm.main.seg \in {"up", "down"}) =>
        /\ wm.thr = "joined"
        /\ wm.query_wavemeter = FALSE

(***************************************************************************)
(* Properties of the sequencer's construction                              *)
(***************************************************************************)
\* the groups handed to the constructor that list a name
Registering(name) ==
    {g \in DOMAIN ct.inputs : name \in Range(ct.inputs[g])}
        \cup {g \in DOMAIN ct.outputs : name \in Range(ct.outputs[g])}

CtNames == UNION {Range(l) : l \in CtInputLists \cup CtOutputLists}

\* C27: a NidaqSequencer whose groups register the same name twice (in two
\* input groups, in two output groups, or in an input and an output group)
\* cannot be constructed
C27_NamesUnique ==
    (ct /= <<>> /\ ct.pc /= "new" /\ \E name \in CtNames : Cardinality(Registering(name)) > 1)
        => ct.pc = "raised"

(***************************************************************************)
(* Properties of the segmented controller's _run_sequence                  *)
(***************************************************************************)
\* the k-th event is preceded, in its repetition, by the return of seg
ReturnedBefore(k, seg) ==
    \E j \in 1..(k - 1) :
        sg.log[j].ev = "return" /\ sg.log[j].seg = seg /\ sg.log[j].rep = sg.log[k].rep

\* C28: the segmented controller's _run_sequence runs repump, up-scan and
\* down-scan strictly one after another: a segment's run_sequence is entered
\* only after the previous segment's run_sequence has returned, with no task
\* of any sequencer open, and never after a segment has raised
C28_SegmentsOneAfterAnother ==
    sg /= <<>> =>
        \A k \in 1..Len(sg.log) :
            sg.log[k].ev = "call" =>
                /\ sg.log[k].open = {}
                /\ sg.log[k].seg = "up" => ReturnedBefore(k, "repump")
                /\ sg.log[k].seg = "down" => ReturnedBefore(k, "up")
                /\ \A j \in 1..(k - 1) : sg.log[j].ev /= "raise"

\* a first repetition ran all three segments, and the second was ended by
\* the up-scan raising
C28_Witness ==
    /\ sg /= <<>>
    /\ sg.rep = 2
    /\ sg.main = At("up", "raised")
    /\ \E k \in 1..Len(sg.log) : sg.log[k].ev = "call" /\ sg.log[k].seg = "down"

(***************************************************************************)
(* Properties of the order of build and start                              *)
(***************************************************************************)
\* C29: run_sequence builds the clock task and every input and output group
\* before it starts any group's task: in the log of a run no build of a
\* group comes after the start of a group's task
C29_AllBuiltBeforeAnyStart ==
    \A p \in 1..Len(log) : \A q \in 1..Len(log) :
        (/\ log[p].ev = "start" /\ log[p].who \in Groups
         /\ log[q].ev = "build" /\ log[q].who \in Groups) => q < p

(***************************************************************************)
(* Properties of an input group's sample count                             *)
(***************************************************************************)
IgBuilt == cg /= <<>> /\ "n_samples_arg" \in DOMAIN cg /\ cg.pc /= "new"

\* C30: a built analog or edge-counting input group acquires as many samples
\* as the largest n_samples + readout_delay of its own channels, whatever
\* the request holds for channels of other groups; every channel's window
\* [delay, delay + n_samples) lies inside the buffer, so a readout that
\* returns hands back n_samples values per channel
C30_SamplesCoverOwnChannels ==
    IgBuilt =>
        LET need == [s \in Range(CounterNames) |->
                        cg.n_samples_arg[s] + cg.readout_delays_arg[s]]
        IN  /\ \A s \in Range(CounterNames) : need[s] <= cg.n_samples_in_task
            /\ \E s \in Range(CounterNames) : need[s] = cg.n_samples_in_task
            /\ \A s \in Range(CounterNames) :
                  /\ 0 <= cg.readout_delays[s]
                  /\ cg.readout_delays[s] + cg.n_samples[s] <= cg.n_samples_in_task
            /\ cg.pc = "done" =>
                  \A s \in Range(CounterNames) : Len(cg.data[s]) = cg.n_samples_arg[s]

\* a group read out whose two channels differ in length and whose request
\* asks more of another group's channel than of its own
C30_Witness ==
    /\ IgBuilt
    /\ cg.pc = "done"
    /\ cg.n_samples_arg["c1"] + cg.readout_delays_arg["c1"]
          < cg.n_samples_arg["c2"] + cg.readout_delays_arg["c2"]
    /\ cg.n_samples_arg["c2"] + cg.readout_delays_arg["c2"]
          < cg.n_samples_arg["other"] + cg.readout_delays_arg["other"]
    /\ cg.readout_delays_arg["c1"] > 0

(***************************************************************************)
(* Properties of the segmented controller's set_output                     *)
(***************************************************************************)
\* a set_output call has ended
SsEnded == ss /= <<>> /\ ss.pc = "idle" /\ ss.calls > 0

\* C32: set_output of the segmented controller, called on an idle
\* controller, leaves busy false on every outcome (written by the repump
\* sequencer, written by the up-scan sequencer, name unknown to both, write
\* raised); called while busy is true it raises and leaves busy true
C32_BusyReleasedOnEveryOutcome ==
    SsEnded =>
        IF ss.entry
        THEN ss.res = "RuntimeError" /\ ss.busy
        ELSE /\ ~ss.busy
             /\ ss.res \in {"ok", "KeyError", "ValueError", "DaqError"}
             /\ ss.res = "ok" =>
                    /\ ss.via = "repump" => ss.output_id \in RepumpOutputs
                    /\ ss.via = "upscan" => ss.output_id \in ScanOutputs
             /\ ss.res = "KeyError" =>
                    ss.via = "upscan" /\ ss.output_id \notin RepumpOutputs \cup ScanOutputs

\* a call on an idle controller whose write by the up-scan sequencer raised
C32_Witness ==
    /\ SsEnded
    /\ ~ss.entry
    /\ ss.via = "upscan"
    /\ ss.res \in {"ValueError", "DaqError"}
    /\ ss.calls = 2

(***************************************************************************)
(* Properties of stabilize                                                 *)
(***************************************************************************)
\* the last k attempts of the call all returned a reading within tolerance
LastAttemptsWithin(k) ==
    /\ Len(sb.attempts) >= k
    /\ \A j \in (Len(sb.attempts) - k + 1)..Len(sb.attempts) : sb.attempts[j] = "within"

\* C33: stabilize returns normally only when the last hold_window wavemeter
\* readings were all taken successfully and lie within tol of the target,
\* never on fewer than hold_window in-tolerance readings; otherwise it
\* closes the wavemeter and raises after max_attempts attempts
C33_ConvergesOnHoldWindowReadings ==
    /\ (sb /= <<>> /\ sb.pc = "returned") =>
            /\ LastAttemptsWithin(sb.hold_window)
            /\ Len(sb.errors) >= sb.hold_window
    /\ (sb /= <<>> /\ sb.pc = "raised") =>
            /\ sb.wavemeter = "closed"
            /\ Len(sb.attempts) = sb.max_attempts

(***************************************************************************)
(* Properties of the caller's readout_delays                               *)
(***************************************************************************)
\* C37: run_sequence does not modify the readout_delays mapping of its
\* caller (or the default mapping shared by the calls that omit it): at
\* every point of a call, accepted or rejected by validation, the mapping
\* holds exactly the entries it held when the call was made
C37_ReadoutDelaysUntouched == readout_delays = rd_given

(***************************************************************************)
(* Properties of get_data after several runs                               *)
(***************************************************************************)
\* C38: after any sequence of run_sequence calls on one sequencer, also
\* ones that failed after output groups were built and before the inputs
\* were read, the arrays get_data() returns all belong to the same
\* run_sequence call
C38_DataOfOneRun ==
    (rs /= <<>> /\ rs.got /= <<>> /\ rs.got.err = "none") =>
        \A g \in Groups, h \in Groups : rs.got.out[g] = rs.got.out[h]

(***************************************************************************)
(* Properties of the PLE application                                       *)
(***************************************************************************)
\* C40: while a batch is in progress every repetition uses the sequence
\* parameters that were configured when the batch set busy: no
\* configure_sequence replaces them mid-batch, also when a second scan is
\* launched between the creation of a scan's thread and that thread
\* setting busy
C40_ParametersFixedDuringBatch ==
    ga /= <<>> =>
        \A k \in 1..Len(ga.threads) :
            \A j \in 1..Len(ga.threads[k].used) :
                ga.threads[k].used[j] = ga.threads[k].start

====
